---- MODULE Spec2Model ----
(***************************************************************************)
(* Question answering over a remote PDF with a persisted vector index.     *)
(*                                                                         *)
(* The model follows src/app/api/v1/hackrx/run/route.ts (the Q&A handler   *)
(* POST and its helpers) and src/lib/pinecone.ts (PineconeService).  Every *)
(* await of the handler is a point where another request may run, so the   *)
(* handler is split into one action per await: the action named XReturn is *)
(* the code that runs from the moment call X settles to the next await.    *)
(***************************************************************************)
EXTENDS Integers, Sequences, FiniteSets, TLC

\* ---------------------------------------------------------------- bounds
\* Requests in flight at the same time (two, as in the race of section 5).
Requests == {"A", "B"}
\* Document URLs 1..NumUrls.
NumUrls == 1
\* Longest questions array of a request.
MaxQuestions == 2
\* Distinct non-empty texts the extraction endpoint may return for a URL.
NumTexts == 2
\* How many times the purge operation is run.
MaxPurges == 1
\* How many times a text is put into the extraction cache.
MaxSets == 2
\* How many times the clock is seen to have moved on, and how far at most.
MaxTicks == 2
MaxClockDays == 8
\* The latest day a signed-expiry parameter names.
MaxSeDay == 8
\* Longest text, in characters, and largest window given to chunkText alone.
MaxChars == 5
MaxWindow == 3
\* Most candidate chunks, and largest k, given to findRelevantChunks alone.
MaxCandidates == 3
MaxK == 4

\* ------------------------------------------------------ program constants
\* route.ts:120  const topK = 2
topK == 2
\* route.ts:64,82  getEmbeddingsOptimized(questions, 5)
questionBatchSize == 5
\* pinecone.ts:118  const batchSize = 100
upsertBatchSize == 100
\* route.ts:278  const maxContextLength = 2000
maxContextLength == 2000
\* pinecone.ts:145  topK: 10000 of the purge's enumeration query
purgeTopK == 10000
\* extract-text/route.ts:1264 and 1279  topK: number = 2, Math.min(2, ...)
defaultTopK == 2
\* extract-text/route.ts:1539 and 1554  topK: number = 3, Math.min(3, ...)
defaultTopKSequential == 3

\* ------------------------------------------------------------ plain helpers
Min(a, b) == IF a < b THEN a ELSE b

Range(s) == {s[i] : i \in DOMAIN s}

\* s.slice(lo, hi) of JavaScript: the elements at 0-based positions lo..hi-1.
Slice(s, lo, hi) == [k \in 1..(Min(hi, Len(s)) - lo) |-> s[lo + k]]

RECURSIVE SeqSum(_)
SeqSum(s) == IF s = <<>> THEN 0 ELSE Head(s) + SeqSum(Tail(s))

\* ------------------------------------------------------------------- inputs
Urls == 1..NumUrls

\* A question is 0 (a string that is empty after trim) or a distinct non-empty
\* question k >= 1.  Position i of a questions array holds the blank question
\* or question i.
\* !question.trim()
IsBlank(q) == q = 0

QuestionLists ==
    UNION {{q \in [1..n -> 0..MaxQuestions] : \A i \in 1..n : q[i] \in {0, i}}
           : n \in 1..MaxQuestions}

\* The texts the extraction endpoint returns: text v has 3000 * (v - 1) + 1
\* words, so 10 * (v - 1) + 1 chunks of 300 words: text 1 is one chunk, text 2
\* needs two embedding batches of 10.  Words are five characters long and
\* separated by one blank.
TextOfWords(v, n) == [ver |-> v, nwords |-> n, length |-> 6 * n - 1]
TextOf(v) == TextOfWords(v, 3000 * (v - 1) + 1)
ShortTexts == {TextOf(v) : v \in 1..NumTexts}
\* A text of one word more than 100 chunks of 300 words: two upsert batches.
LongText == TextOfWords(0, 300 * upsertBatchSize + 1)
\* The text "" (or only white space): no words.
EmptyText == [ver |-> 0, nwords |-> 0, length |-> 0]

\* ------------------------------------------------ route.ts: pure helpers
\* chunkText: the words of the text in windows of maxWords words; a chunk is
\* the words at 0-based offsets from..to-1 of text ver, joined by one blank.
chunkText(text, maxWords) ==
    [i \in 1..((text.nwords + maxWords - 1) \div maxWords) |->
        [ver |-> text.ver,
         from |-> (i - 1) * maxWords,
         to |-> Min(i * maxWords, text.nwords)]]

\* Characters of a chunk: its words and the blanks between them.
ChunkLength(c) == 6 * (c.to - c.from) - 1

\* processAndStorePDF: the window size adapts to the length of the text.
chunkSizeFor(text) ==
    IF text.length > 1000000 THEN 150
    ELSE IF text.length > 500000 THEN 200
    ELSE 300

\* processAndStorePDF: const batchSize = chunks.length > 50 ? 20 : 10
chunkBatchSize(cs) == IF Len(cs) > 50 THEN 20 ELSE 10

\* The embedding service: one vector per input text, in input order.
Embedding(t) == [src |-> t]
EmbedBatch(batch) == [k \in 1..Len(batch) |-> Embedding(batch[k])]

\* askOpenRouterOptimized: contextChunks.join('\n\n').substring(0, 2000).
\* The context is the joined chunks cut after `length` characters.
JoinedLength(cs) ==
    IF cs = <<>> THEN 0
    ELSE SeqSum([k \in 1..Len(cs) |-> ChunkLength(cs[k])]) + 2 * (Len(cs) - 1)
ContextOf(cs) == [parts |-> cs, length |-> Min(JoinedLength(cs), maxContextLength)]

\* The answers a slot of the response can hold.
EmptyQuestionAnswer == [kind |-> "emptyQuestion", q |-> 0, context |-> ContextOf(<<>>)]
FailedAnswer(q) == [kind |-> "failed", q |-> q, context |-> ContextOf(<<>>)]
\* What the language model answers to question q on the given context.
SynthAnswer(q, cs) == [kind |-> "answer", q |-> q, context |-> ContextOf(cs)]

\* questionResults.sort((a, b) => a.index - b.index): a stable insertion sort.
RECURSIVE InsertByIndex(_, _)
InsertByIndex(sorted, x) ==
    IF sorted = <<>> THEN <<x>>
    ELSE IF Head(sorted).index - x.index > 0
         THEN <<x>> \o sorted
         ELSE <<Head(sorted)>> \o InsertByIndex(Tail(sorted), x)

RECURSIVE SortByIndexFrom(_, _)
SortByIndexFrom(rs, k) ==
    IF k = 0 THEN <<>>
    ELSE InsertByIndex(SortByIndexFrom(rs, k - 1), rs[k])

\* The sort with the comparator turned around: (a, b) => b.index - a.index.
RECURSIVE InsertByIndexDescending(_, _)
InsertByIndexDescending(sorted, x) ==
    IF sorted = <<>> THEN <<x>>
    ELSE IF x.index - Head(sorted).index > 0
         THEN <<x>> \o sorted
         ELSE <<Head(sorted)>> \o InsertByIndexDescending(Tail(sorted), x)

RECURSIVE SortByIndexDescending(_)
SortByIndexDescending(rs) ==
    IF rs = <<>> THEN <<>>
    ELSE InsertByIndexDescending(SortByIndexDescending(SubSeq(rs, 1, Len(rs) - 1)),
                                 rs[Len(rs)])

SortByIndex(rs) == SortByIndexFrom(rs, Len(rs))

\* ---------------------------------------------- pinecone.ts: pure helpers
\* The composite id `${pdfUrl}_chunk_${index}`: the decimal index follows the
\* last "_chunk_", so the pair (pdfUrl, index) determines the id and back.
RecordId(pdfUrl, index) == <<pdfUrl, index>>

\* storePDFChunks: chunks.map((chunk, index) => ({id, values, metadata})).
PrepareVectors(pdfUrl, cs, embs, t) ==
    [k \in 1..Len(cs) |->
        [id |-> RecordId(pdfUrl, k - 1),
         values |-> embs[k],
         metadata |-> [text |-> cs[k],
                       pdfUrl |-> pdfUrl,
                       chunkIndex |-> k - 1,
                       totalChunks |-> Len(cs),
                       createdAt |-> t]]]

\* An upsert that replaces the whole index by the batch.
UpsertReplacingAll(st, batch) ==
    [id \in {batch[k].id : k \in DOMAIN batch} |->
        LET v == CHOOSE b \in Range(batch) : b.id = id
        IN [values |-> v.values, metadata |-> v.metadata]]

\* index.upsert(batch): every record of the batch replaces the record of the
\* same id, or is added.
Upsert(st, batch) ==
    LET ids == {batch[k].id : k \in DOMAIN batch}
        \* The position of id in a batch whose ids count up by one, which the
        \* slices of storePDFChunks do; any other batch is searched.
        at(id) == LET k == id[2] - batch[1].id[2] + 1
                  IN IF k \in DOMAIN batch /\ batch[k].id = id THEN k
                     ELSE CHOOSE j \in DOMAIN batch : batch[j].id = id
    IN [id \in (DOMAIN st) \cup ids |->
           IF id \in ids
           THEN [values |-> batch[at(id)].values, metadata |-> batch[at(id)].metadata]
           ELSE st[id]]

\* index.deleteMany(ids)
DeleteMany(st, ids) == [id \in (DOMAIN st) \ ids |-> st[id]]

\* The index's similarity of a query vector and a stored vector.  The dummy
\* all-zero vector of the metadata-only queries scores 0 everywhere.
ZeroVector == [src |-> -1]
Score(qv, v) ==
    IF qv.src < 0 THEN 0
    ELSE (qv.src * 3 + v.src.from \div 100 + v.src.ver) % 5

\* A number above every chunk index stored: n, or the first of 2n, 4n, ...
\* that is.
RECURSIVE IndexBoundFrom(_, _)
IndexBoundFrom(st, n) ==
    IF \A id \in DOMAIN st : id[2] < n THEN n ELSE IndexBoundFrom(st, 2 * n)
IndexBound(st) == IndexBoundFrom(st, 1)

\* A match of index.query: the record's id, its score and its metadata.
MatchOf(st, qv, id) == [id |-> id, score |-> Score(qv, st[id].values), metadata |-> st[id].metadata]

\* Merges two rankings (best first); the matches of lo have the lower chunk
\* indices and come first among equal scores.
RECURSIVE RankMerge(_, _)
RankMerge(lo, hi) ==
    IF lo = <<>> THEN hi
    ELSE IF hi = <<>> THEN lo
    ELSE IF Head(hi).score > Head(lo).score
         THEN <<Head(hi)>> \o RankMerge(lo, Tail(hi))
         ELSE <<Head(lo)>> \o RankMerge(Tail(lo), hi)

\* The k best records of document pdfUrl among chunk indices from..to-1:
\* highest score first, the lower chunk index first among equal scores.
RECURSIVE RankRange(_, _, _, _, _, _)
RankRange(st, qv, pdfUrl, k, from, to) ==
    IF to - from <= 0 THEN <<>>
    ELSE IF to - from = 1
    THEN IF RecordId(pdfUrl, from) \in DOMAIN st
         THEN SubSeq(<<MatchOf(st, qv, RecordId(pdfUrl, from))>>, 1, Min(k, 1))
         ELSE <<>>
    ELSE LET mid == (from + to) \div 2
             all == RankMerge(RankRange(st, qv, pdfUrl, k, from, mid),
                              RankRange(st, qv, pdfUrl, k, mid, to))
         IN SubSeq(all, 1, Min(k, Len(all)))

\* index.query({vector, filter: {pdfUrl: {$eq: pdfUrl}}, topK: k}).
IndexQuery(st, qv, pdfUrl, k) == RankRange(st, qv, pdfUrl, k, 0, IndexBound(st))

\* index.query with the dummy vector and without metadata, as deletePDFChunks
\* issues it: every score is equal, so the index returns the ids of all the
\* records of the document, or of any k of them when there are more than k.
\* MatchingIds are the ids of the document's records, LeftOut the sets of ids
\* the query may leave out: the sets of d ids when d ids are too many.
MatchingIds(st, pdfUrl) == {id \in DOMAIN st : st[id].metadata.pdfUrl = pdfUrl}

RECURSIVE LeftOut(_, _)
LeftOut(ids, d) ==
    IF d <= 0 THEN {{}}
    ELSE {out \cup {x} : out \in LeftOut(ids, d - 1), x \in ids} \ LeftOut(ids, d - 1)

EnumerateIds(st, pdfUrl, k) ==
    LET ids == MatchingIds(st, pdfUrl)
    IN {ids \ out : out \in LeftOut(ids, Cardinality(ids) - k)}

\* matches.sort((a, b) => (b.score || 0) - (a.score || 0)): stable.
RECURSIVE InsertByScore(_, _)
InsertByScore(sorted, x) ==
    IF sorted = <<>> THEN <<x>>
    ELSE IF x.score - Head(sorted).score > 0
         THEN <<x>> \o sorted
         ELSE <<Head(sorted)>> \o InsertByScore(Tail(sorted), x)

RECURSIVE SortByScoreFrom(_, _)
SortByScoreFrom(ms, k) ==
    IF k = 0 THEN <<>>
    ELSE InsertByScore(SortByScoreFrom(ms, k - 1), ms[k])

\* The matches left in the order they came in.
SortByScoreNot(ms) == ms

SortByScore(ms) == SortByScoreFrom(ms, Len(ms))

\* getTopKChunks, after the query returned: sort, take the texts, drop the
\* empty ones (a chunk always has a word, so none is dropped).
MatchTexts(ms) == [k \in 1..Len(ms) |-> SortByScore(ms)[k].metadata.text]

\* The test with the bound off by one: matches.length > 1.
MatchesExistOffByOne(ms) == Len(ms) > 1

\* checkPDFExists, after the query returned.
MatchesExist(ms) == Len(ms) > 0

\* ------------------------------------ extract-text/route.ts: pure helpers
HourMs == 60 * 60 * 1000
DayMs == 24 * HourMs
Max(a, b) == IF a > b THEN a ELSE b

\* The `se` parameter of a document URL: not there (searchParams.get gives
\* null), the empty string, a word that is no date, or the date string of
\* hour `hour` of day `day` (days count from the start of the clock).
NoSe == [kind |-> "none", day |-> 0, hour |-> 0]
EmptySe == [kind |-> "empty", day |-> 0, hour |-> 0]
WordSe == [kind |-> "word", day |-> 0, hour |-> 0]
DateSe(d, h) == [kind |-> "date", day |-> d, hour |-> h]
SeDates == {DateSe(0, 2), DateSe(0, 4), DateSe(MaxSeDay, 0)}
SeParams == {NoSe, EmptySe, WordSe} \cup SeDates

\* The document URLs with their `se` parameter.
CacheUrls == [doc : Urls, se : SeParams]

\* Date.parse(se): the ms of the date, NaN for anything else.
NaN == [nan |-> TRUE]
DateParse(se) ==
    IF se.kind = "date" THEN [nan |-> FALSE, ms |-> se.day * DayMs + se.hour * HourMs]
    ELSE NaN

\* computeTTL without the ceiling of 7 days.
computeTTLUncapped(url, nowMs) ==
    LET se == url.se
        expiry == DateParse(se)
    IN IF se.kind \notin {"none", "empty"} /\ ~expiry.nan
       THEN Max(0, expiry.ms - nowMs)
       ELSE 24 * 60 * 60 * 1000

\* computeTTL(urlString) when Date.now() gives nowMs.
computeTTL(url, nowMs) ==
    LET se == url.se
        expiry == DateParse(se)
    IN IF se.kind \notin {"none", "empty"} /\ ~expiry.nan
       THEN Min(Max(0, expiry.ms - nowMs), 7 * 24 * 60 * 60 * 1000)
       ELSE 24 * 60 * 60 * 1000

\* The test with the entry already expired at its expiry: >= for >.
ExpiredAtExpiry(entry, nowMs) == nowMs >= entry.expiresAt

\* getCachedText: Date.now() > entry.expiresAt
Expired(entry, nowMs) == nowMs > entry.expiresAt

\* getCachedText returns null.
NoText == [ver |-> -1, nwords |-> 0, length |-> 0]

\* ------------------------------------------------- chunkText on characters
\* A string is the sequence of its characters; " " is the white space.
Chars == {"a", "b", " "}
IsSpace(c) == c = " "
RECURSIVE StringsOf(_)
StringsOf(n) ==
    IF n = 0 THEN {<<>>}
    ELSE StringsOf(n - 1) \cup {Append(str, c) : str \in StringsOf(n - 1), c \in Chars}
Strings == StringsOf(MaxChars)

\* str.split(/\s+/): the pieces between the runs of white space; a run at the
\* start or at the end leaves an empty piece there, and "" gives [""].
RECURSIVE SplitFrom(_, _, _, _)
SplitFrom(str, i, pieces, piece) ==
    IF i > Len(str) THEN Append(pieces, piece)
    ELSE IF IsSpace(str[i])
         THEN IF i > 1 /\ IsSpace(str[i - 1])
              THEN SplitFrom(str, i + 1, pieces, piece)
              ELSE SplitFrom(str, i + 1, Append(pieces, piece), <<>>)
         ELSE SplitFrom(str, i + 1, pieces, Append(piece, str[i]))
SplitSpaces(str) == SplitFrom(str, 1, <<>>, <<>>)

\* words.join(' ')
RECURSIVE JoinSpaces(_)
JoinSpaces(words) ==
    IF words = <<>> THEN <<>>
    ELSE IF Len(words) = 1 THEN words[1]
    ELSE words[1] \o <<" ">> \o JoinSpaces(Tail(words))

\* .filter(word => word.length > 0)
NonEmpty(word) == Len(word) > 0
\* chunk.trim() is not ""
HasText(str) == \E i \in DOMAIN str : ~IsSpace(str[i])

\* What chunkText gives: the chunks, or the Error it throws.
Chunks(cs) == [threw |-> "", chunks |-> cs]
Threw(message) == [threw |-> message, chunks |-> <<>>]

\* The loop of chunkText over the words: one chunk per window of maxWords.
Windows(words, maxWords) ==
    [k \in 1..((Len(words) + maxWords - 1) \div maxWords) |->
        JoinSpaces(Slice(words, (k - 1) * maxWords, k * maxWords))]

\* chunkText whose windows overlap by one word: i += maxWords - 1.
WindowsOverlapping(text, maxWords) ==
    LET words == SelectSeq(SplitSpaces(text), NonEmpty)
        step == Max(1, maxWords - 1)
    IN [k \in 1..((Len(words) + step - 1) \div step) |->
           JoinSpaces(Slice(words, (k - 1) * step, (k - 1) * step + maxWords))]

\* The chunks chunkText of run/route.ts returns for valid arguments.
WindowsOfText(text, maxWords) ==
    SelectSeq(Windows(SelectSeq(SplitSpaces(text), NonEmpty), maxWords), HasText)

\* chunkText without the check of the text.
chunkTextUnchecked(text, maxWords) ==
    IF maxWords <= 0 THEN Threw("Invalid input: maxWords must be a positive number")
    ELSE Chunks(WindowsOfText(text, maxWords))

\* chunkText of run/route.ts on a string.
chunkTextChars(text, maxWords) ==
    IF text = <<>> THEN Threw("Invalid input: text must be a non-empty string")
    ELSE IF maxWords <= 0 THEN Threw("Invalid input: maxWords must be a positive number")
    ELSE Chunks(WindowsOfText(text, maxWords))

\* chunkText of extract-text/route.ts (the in-memory Q&A handlers): the empty
\* pieces of the split are kept.
chunkTextInMemory(text, maxWords) ==
    IF text = <<>> THEN Threw("Invalid input: text must be a non-empty string")
    ELSE IF maxWords <= 0 THEN Threw("Invalid input: maxWords must be a positive number")
    ELSE Chunks(Windows(SplitSpaces(text), maxWords))

\* ------------------------------------ extract-text/route.ts: the retriever
\* Embedding vectors of the in-memory handlers: the vectors of length 5 (the
\* embedding service returns vectors of one length) and the zero vector.
Vectors == {<<5, 0>>, <<4, 3>>, <<3, 4>>, <<0, 0>>}
Dot(a, b) == a[1] * b[1] + a[2] * b[2]

\* cosineSimilarity throws for a vector of magnitude 0.
CosineThrows(a, b) == Dot(a, a) = 0 \/ Dot(b, b) = 0
\* cosineSimilarity(a, b) = dot / (magA * magB), in 25ths: magA = magB = 5.
cosineSimilarity(a, b) == Dot(a, b)

\* findRelevantChunks without the clamp: slice(0, topK) as asked.
ClampTopKNot(k, n, dflt) == k

\* findRelevantChunks: if (topK <= 0 || topK > docChunks.length)
\*                         topK = Math.min(<default>, docChunks.length)
ClampTopK(k, n, dflt) == IF k <= 0 \/ k > n THEN Min(dflt, n) ELSE k

\* findRelevantChunks(queryEmbedding, docEmbeddings, docChunks, topK) with the
\* default dflt of its variant; docChunks.length = docEmbeddings.length.
findRelevantChunks(queryEmbedding, docEmbeddings, docChunks, k, dflt) ==
    IF docEmbeddings = <<>> THEN Threw("Invalid document embeddings")
    ELSE IF \E i \in DOMAIN docEmbeddings : CosineThrows(queryEmbedding, docEmbeddings[i])
    THEN Threw("Invalid vectors: magnitude cannot be zero")
    ELSE LET similarities == [i \in DOMAIN docEmbeddings |->
                                 [index |-> i,
                                  score |-> cosineSimilarity(queryEmbedding, docEmbeddings[i])]]
             top == Slice(SortByScore(similarities), 0,
                          ClampTopK(k, Len(docChunks), dflt))
         IN Chunks([j \in DOMAIN top |-> docChunks[top[j].index]])

\* -------------------------------------------------------------- the embedder
\* The batch size of getEmbeddings, the embedder of the in-memory handlers.
embedBatchSize == 10

\* The texts given to getEmbeddingsOptimized called alone: up to MaxTexts
\* texts out of two; its batch sizes: 1..MaxBatchSize.
MaxTexts == 4
MaxBatchSize == 3
TextLists == UNION {[1..n -> {1, 2}] : n \in 0..MaxTexts}
\* The in-memory handler embeds up to MaxChunkCount chunks and up to
\* MaxQuestionCount questions: text k is k.
MaxChunkCount == 11
MaxQuestionCount == 11
Numbered(n) == [k \in 1..n |-> k]

\* The batch with its first text repeated from the batch before.
BatchAtOverlapping(txts, i, batchSize) == Slice(txts, Max(i - 1, 0), i + batchSize)

\* texts.slice(i, i + batchSize).
BatchAt(txts, i, batchSize) == Slice(txts, i, i + batchSize)

\* A call of the embedder: its arguments, where it is (at "create": awaiting
\* embeddings.create of the batch at i; "delay": awaiting the pause; "returned":
\* it returned embeddings; "threw": it threw the message), its local
\* embeddings, the batches (their i) it has requested of the service, and
\* whether the service raised.
Run(txts, batchSize, at, i, embeddings, requested, message) ==
    [texts |-> txts, batchSize |-> batchSize, at |-> at, i |-> i,
     embeddings |-> embeddings, requested |-> requested, threw |-> message,
     raised |-> FALSE]

\* The embedder up to its first await: an empty input throws inside the try.
StartRun(txts, batchSize) ==
    IF txts = <<>>
    THEN Run(txts, batchSize, "threw", 0, <<>>, <<>>, "Failed to generate embeddings")
    ELSE Run(txts, batchSize, "create", 0, <<>>, <<0>>, "")

\* The embedder with a catch that returns what it has.
AfterCreateKeepingPartial(run, raised) ==
    LET acc == IF raised THEN run.embeddings
               ELSE run.embeddings \o EmbedBatch(BatchAt(run.texts, run.i, run.batchSize))
    IN IF ~raised /\ run.i + run.batchSize < Len(run.texts)
       THEN [run EXCEPT !.embeddings = acc, !.at = "delay"]
       ELSE [run EXCEPT !.embeddings = acc, !.at = "returned", !.raised = raised]

\* The embedder after embeddings.create of the batch at i settled: the catch
\* throws "Failed to generate embeddings" when it raised; else the vectors are
\* pushed, and the loop pauses when texts are left, or the embedder returns.
AfterCreate(run, raised) ==
    IF raised THEN [run EXCEPT !.at = "threw", !.threw = "Failed to generate embeddings",
                               !.raised = TRUE]
    ELSE LET acc == run.embeddings \o EmbedBatch(BatchAt(run.texts, run.i, run.batchSize))
         IN IF run.i + run.batchSize < Len(run.texts)
            THEN [run EXCEPT !.embeddings = acc, !.at = "delay"]
            ELSE [run EXCEPT !.embeddings = acc, !.at = "returned"]

\* The embedder after the pause: i += batchSize, the next batch is requested.
AfterDelay(run) ==
    [run EXCEPT !.at = "create", !.i = run.i + run.batchSize,
                !.requested = Append(run.requested, run.i + run.batchSize)]

\* The in-memory handler at Promise.all([getEmbeddings(chunks),
\* getEmbeddings(questions)]): pending while no call threw and one has not
\* returned; the catch answers 500 as soon as one threw; else step 4 goes on.
StepAt(at, status, error) == [at |-> at, status |-> status, error |-> error]
NotAwaited == StepAt("none", 0, "")
AwaitingEmbeddings == StepAt("pending", 0, "")
Embedded == StepAt("embedded", 0, "")
EmbeddingsFailed == StepAt("responded", 500, "Failed to generate embeddings.")
AllSettled(runs, response) ==
    IF response # AwaitingEmbeddings THEN response
    ELSE IF \E w \in DOMAIN runs : runs[w].at = "threw" THEN EmbeddingsFailed
    ELSE IF \A w \in DOMAIN runs : runs[w].at = "returned" THEN Embedded
    ELSE AwaitingEmbeddings

\* ------------------------------------------------- the extraction endpoint
\* The endpoint exists in two variants: the first (POST of line 23) tries
\* Adobe Extract, then Adobe OCR with a pdf.js parse; the second (POST of line
\* 317) splits documents above CHUNK_SIZE_LIMIT and else runs processNormalPDF.
MAX_FILE_SIZE_FIRST == 52428800
MAX_FILE_SIZE == 104857600
CHUNK_SIZE_LIMIT == 52428800
PAGES_PER_SPLIT_TEXT == 200
PAGES_PER_SPLIT_SCANNED == 50
ADOBE_PAGE_LIMIT == 300
\* Math.min(3, partsNeeded), Math.min(5, partsNeeded) of the two passes.
maxPartsFirstPass == 3
maxPartsSecondPass == 5

\* calculateSplittingStrategy is called for documents of up to MaxPages pages.
MaxPages == 320

\* A text of a response or of a tier: a string of characters, followed, when
\* it is the text of a split extraction, by the texts of the parts under their
\* "--- Part n ---" headers and by the "[Note: ...]" that ends it.  A field
\* that is not there is undefined.
\* The numbers a note names: the parts processed (0 when the note names
\* none) and the parts in total.
Numbers(processed, total) == [processed |-> processed, total |-> total]
NoNumbers == Numbers(0, 0)
StringOf(chars) ==
    [type |-> "string", chars |-> chars, parts |-> <<>>, note |-> "", numbers |-> NoNumbers]
SplitString(parts, note, numbers) ==
    [type |-> "string", chars |-> <<>>, parts |-> parts, note |-> note, numbers |-> numbers]
Undefined ==
    [type |-> "undefined", chars |-> <<>>, parts |-> <<>>, note |-> "", numbers |-> NoNumbers]
EmptyString == StringOf(<<>>)
\* text.trim().length > 0: a part's header and a note are not white space.
Trimmed(text) == HasText(text.chars) \/ text.parts # <<>> \/ text.note # ""
\* text || '': falsy is the empty string (and undefined).
Truthy(text) == text.type = "string" /\ (text.chars # <<>> \/ text.parts # <<>> \/ text.note # "")

\* What a conversion service or a parser hands back as text.
TierTexts == {<<>>, <<" ">>, <<"a">>}

\* Math.ceil(a / b) for a >= 0, b >= 1.
Ceil(a, b) == (a + b - 1) \div b

\* calculateSplittingStrategy(pageCount, forceSmaller).
calculateSplittingStrategy(pageCount, forceSmaller) ==
    LET perSplit == IF pageCount > ADOBE_PAGE_LIMIT THEN PAGES_PER_SPLIT_SCANNED
                    ELSE PAGES_PER_SPLIT_TEXT
        pagesPerPart == IF forceSmaller THEN perSplit \div 2 ELSE perSplit
    IN [partsNeeded |-> Ceil(pageCount, pagesPerPart), pagesPerPart |-> pagesPerPart]

\* The page range with the end one page further: the next part's first page.
PageRangeOverlapping(partIndex, strategy, pageCount) ==
    [startPage |-> partIndex * strategy.pagesPerPart,
     endPage |-> Min((partIndex + 1) * strategy.pagesPerPart, pageCount - 1)]

\* createSinglePDFPart: the (0-based) page range of part partIndex.
PageRange(partIndex, strategy, pageCount) ==
    [startPage |-> partIndex * strategy.pagesPerPart,
     endPage |-> Min((partIndex + 1) * strategy.pagesPerPart - 1, pageCount - 1)]

\* createPDFSplit: for (j = startPage; j <= endPage; j++) pageIndices.push(j).
PageIndices(range) == range.startPage .. range.endPage

\* The parts a pass attempts: the first Math.min(cap, partsNeeded) ones.
PartsOfPassUncapped(cap, strategy) == 1..strategy.partsNeeded
PartsOfPass(cap, strategy) == 1..Min(cap, strategy.partsNeeded)

\* A part's result: '' or the text under "--- Part n ---" ("(OCR)").
NoPartText == [part |-> 0, ocr |-> FALSE, chars |-> <<>>]
PartText(n, ocr, chars) == [part |-> n, ocr |-> ocr, chars |-> chars]

\* The results that are fulfilled and not blank, the last part first.
RECURSIVE CombinedDescending(_, _)
CombinedDescending(results, n) ==
    IF n = 0 THEN <<>>
    ELSE (IF results[n].part # 0 THEN <<results[n]>> ELSE <<>>) \o
         CombinedDescending(results, n - 1)

\* combinedText after a pass: the results that are fulfilled and not blank,
\* in part order.
RECURSIVE Combined(_, _)
Combined(results, n) ==
    IF n = 0 THEN <<>>
    ELSE Combined(results, n - 1) \o
         (IF results[n].part # 0 THEN <<results[n]>> ELSE <<>>)

\* The note that never tells of the parts left out.
NoteOfAllParts(strategy, maxPartsToProcess) == "split"

\* The note processLargePDFWithSplitting ends its text with: "first n parts of
\* ... total parts" when the first strategy has more parts than were processed,
\* else "split into n parts".
NoteOf(strategy, maxPartsToProcess) ==
    IF strategy.partsNeeded > maxPartsToProcess THEN "first parts only" ELSE "split"
\* The numbers in that note: ${maxPartsToProcess} and
\* ${splittingStrategy.partsNeeded}, or the latter alone.
NumbersOf(strategy, maxPartsToProcess) ==
    IF strategy.partsNeeded > maxPartsToProcess
    THEN Numbers(maxPartsToProcess, strategy.partsNeeded)
    ELSE Numbers(0, strategy.partsNeeded)

\* ------------------------------------------- the Q&A handlers: validation
\* A value of the JSON body, as far as the validation looks at it: its type,
\* the characters of a string, the digits of a number, the items of an array.
JsonValue(type, chars, items) == [type |-> type, chars |-> chars, items |-> items]
JsUndefined == JsonValue("undefined", <<>>, <<>>)
JsNull == JsonValue("null", <<>>, <<>>)
JsString(chars) == JsonValue("string", chars, <<>>)
JsNumber(digits) == JsonValue("number", digits, <<>>)
JsObject == JsonValue("object", <<>>, <<>>)
JsArray(items) == JsonValue("array", <<>>, items)

\* !value is false: the value is not undefined, null, '' or 0.
JsTruthy(v) ==
    /\ v.type \notin {"undefined", "null"}
    /\ v.type = "string" => v.chars # <<>>
    /\ v.type = "number" => v.chars # <<"0">>

\* Array.isArray(value)
IsArray(v) == v.type = "array"

\* The schemes of the documents strings: "<scheme>://host/doc.pdf".
Schemes == {<<"h", "t", "t", "p">>, <<"h", "t", "t", "p", "s">>,
            <<"h", "t", "t", "p", "x">>, <<"h", "t">>, <<"f", "t", "p">>,
            <<"f", "i", "l", "e">>, <<"s", "3">>}
Colon == <<":">>
Slash == <<"/">>
HostAndPath == Slash \o Slash \o <<"host">> \o Slash \o <<"doc.pdf">>
UrlString(scheme) == JsString(scheme \o Colon \o HostAndPath)
\* A string that new URL() rejects: it has no scheme.
NoUrlString == JsString(<<"doc.pdf">>)

\* The position of the first ':' of a string, 0 when it has none.
RECURSIVE ColonAt(_, _)
ColonAt(chars, i) ==
    IF i > Len(chars) THEN 0
    ELSE IF chars[i] = ":" THEN i
    ELSE ColonAt(chars, i + 1)

\* new URL(value): it throws unless the value, as a string, starts with a
\* scheme and a ':'; url.protocol is the scheme with its ':'.
UrlParses(v) == v.type = "string" /\ ColonAt(v.chars, 1) > 1
Protocol(v) == SubSeq(v.chars, 1, ColonAt(v.chars, 1))

\* protocol.startsWith(prefix)
StartsWith(chars, prefix) ==
    /\ Len(chars) >= Len(prefix)
    /\ SubSeq(chars, 1, Len(prefix)) = prefix

\* u.protocol === 'http:' || u.protocol === 'https:'
IsHttpProtocol(protocol) ==
    protocol \in {<<"h", "t", "t", "p", ":">>, <<"h", "t", "t", "p", "s", ":">>}

\* isValidUrl of the extraction endpoint.
isValidUrl(v) == UrlParses(v) /\ IsHttpProtocol(Protocol(v))

\* The Q&A handlers' test of the protocol: url.protocol.startsWith('http').
ProtocolAccepted(protocol) == StartsWith(protocol, <<"h", "t", "t", "p">>)

\* The error the validation of a Q&A handler rejects the body with (status
\* 400), "" when it lets the body pass.
Validate(body) ==
    IF \/ ~JsTruthy(body.documents)
       \/ ~JsTruthy(body.questions)
       \/ ~IsArray(body.questions)
       \/ Len(body.questions.items) = 0
    THEN "Invalid request. Please provide documents URL and questions array."
    ELSE IF ~UrlParses(body.documents)
    THEN "Invalid documents parameter. Must be a valid URL."
    ELSE IF ~ProtocolAccepted(Protocol(body.documents))
    THEN "Invalid documents parameter. Must be a valid HTTP/HTTPS URL."
    ELSE ""

\* The bodies the clients send.
DocumentsValues ==
    {JsUndefined, JsNull, JsString(<<>>), JsNumber(<<"0">>), JsNumber(<<"1">>),
     JsObject, NoUrlString} \cup {UrlString(scheme) : scheme \in Schemes}
QuestionsValues ==
    {JsUndefined, JsNull, JsString(<<>>), JsString(<<"q">>), JsNumber(<<"0">>),
     JsObject, JsArray(<<>>)} \cup {JsArray(qs) : qs \in QuestionLists}
Bodies == [fn : {"POST"}, documents : DocumentsValues, questions : QuestionsValues]

\* -------------------------------------------------------------------- state
VARIABLES
    clients,            \* the requests that arrive
    lists,              \* the questions arrays the clients send
    texts,              \* the texts the extraction endpoint may return
    store,              \* the persisted index: record id -> [values, metadata]
    now,                \* the clock read by new Date() in storePDFChunks
    pc,                 \* per request: the await the handler is suspended at
    documents,          \* per request: the documents URL of the body
    questions,          \* per request: the questions array of the body
    pdfExists,          \* per request: POST's const pdfExists
    extractedText,      \* per request: POST's const extractedText
    chunks,             \* per request: processAndStorePDF's chunks
    chunkEmbeddings,    \* per request: processAndStorePDF's embeddings
    embI,               \* per request: getEmbeddingsOptimized's loop variable i
    embAcc,             \* per request: getEmbeddingsOptimized's embeddings
    createdAt,          \* per request: the time storePDFChunks read
    upI,                \* per request: storePDFChunks' loop variable i
    questionEmbeddings, \* per request: POST's questionEmbeddings
    task,               \* per request and question: where its promise stands
    relevantChunks,     \* per request and question: the task's relevantChunks
    questionResults,    \* per request and question: what its promise resolved to
    response,           \* per request: the response sent
    calls,              \* per request: the collaborator calls, in issue order
    hist,               \* per request: what happened to it (for the properties)
    purgePc,            \* deletePDFChunks: the await it is suspended at
    purgeUrl,           \* deletePDFChunks: its pdfUrl
    chunkIds,           \* deletePDFChunks: the ids its query returned
    purges,             \* how many times deletePDFChunks was called
    cacheUrls,          \* the URLs the extraction endpoint is asked for
    extractCache,       \* extract-text: the Map extractCache, url -> CacheEntry
    clock,              \* Date.now(), in ms since the process started
    cached,             \* the last getCachedText call: its url and what it returned
    lastSet,            \* per url: the last setCachedText call (for the properties)
    sets,               \* how many times setCachedText was called
    ticks,              \* how many times the clock moved on
    input,              \* a helper called alone: its name and arguments
    output,             \* what that call gave
    extractReq,         \* extract-text: the request being served and its document
    extractPc,          \* extract-text: the await the handler is suspended at
    invoked,            \* extract-text: the tiers invoked so far and what they gave
    passes,             \* extract-text: the passes of the split and their parts
    extractResponse,    \* extract-text: the response
    extractions,        \* extract-text: how many requests have arrived
    partLog             \* extract-text: the parts' settlements, in their order

reqVars == <<pc, documents, questions, pdfExists, extractedText, chunks,
             chunkEmbeddings, embI, embAcc, createdAt, upI, questionEmbeddings,
             task, relevantChunks, questionResults, response, calls, hist>>
purgeVars == <<purgePc, purgeUrl, chunkIds, purges>>
cacheVars == <<cacheUrls, extractCache, clock, cached, lastSet, sets, ticks>>
helperVars == <<input, output>>
extractVars == <<extractReq, extractPc, invoked, passes, extractResponse, extractions,
                 partLog>>
vars == <<clients, lists, texts, store, now, reqVars, purgeVars, cacheVars, helperVars,
          extractVars>>

\* later: when the request arrived, a request for the same document had
\*   already ingested it and answered with 200;
\* existsRaised, upsertRaised: the query of checkPDFExists, an upsert, raised;
\* queryRaised, synthRaised: the questions (1-based) whose query, whose
\*   synthesis raised;  order: the questions in the order their tasks finished.
NoHistory == [later |-> FALSE, existsRaised |-> FALSE,
              upsertRaised |-> FALSE, queryRaised |-> {}, synthRaised |-> {},
              order |-> <<>>]

NoResponse == [status |-> 0, answers |-> <<>>, error |-> ""]
EmptyStore == [id \in {} |-> 0]

\* The extraction endpoint before a request: no request, no response.
NoExtractRequest == [variant |-> 0, url |-> "missing", size |-> 0, pageCount |-> 0]
NoExtractResponse == [status |-> 0, text |-> Undefined, warning |-> "", error |-> "",
                      details |-> ""]

\* The log of the parts' settlements: kept when on, for the properties that
\* speak of the order in which the parts of a pass complete.
NoPartLog == [on |-> FALSE, events |-> <<>>]
EmptyPartLog == [on |-> TRUE, events |-> <<>>]

\* The state of the requests and the purge when the process starts, with the
\* log of the parts on or off.
StartRequestsWith(log) ==
    /\ pc = [r \in Requests |-> "idle"]
    /\ documents = [r \in Requests |-> 0]
    /\ questions = [r \in Requests |-> <<>>]
    /\ pdfExists = [r \in Requests |-> FALSE]
    /\ extractedText = [r \in Requests |-> EmptyText]
    /\ chunks = [r \in Requests |-> <<>>]
    /\ chunkEmbeddings = [r \in Requests |-> <<>>]
    /\ embI = [r \in Requests |-> 0]
    /\ embAcc = [r \in Requests |-> <<>>]
    /\ createdAt = [r \in Requests |-> 0]
    /\ upI = [r \in Requests |-> 0]
    /\ questionEmbeddings = [r \in Requests |-> <<>>]
    /\ task = [r \in Requests |-> <<>>]
    /\ relevantChunks = [r \in Requests |-> <<>>]
    /\ questionResults = [r \in Requests |-> <<>>]
    /\ response = [r \in Requests |-> NoResponse]
    /\ calls = [r \in Requests |-> <<>>]
    /\ hist = [r \in Requests |-> NoHistory]
    /\ purgePc = "idle"
    /\ purgeUrl = 0
    /\ chunkIds = {}
    /\ purges = 0
    /\ extractReq = NoExtractRequest
    /\ extractPc = "idle"
    /\ invoked = <<>>
    /\ passes = <<>>
    /\ extractResponse = NoExtractResponse
    /\ extractions = 0
    /\ partLog = log

\* The same, without the log.
StartRequests == StartRequestsWith(NoPartLog)

\* The extraction cache when the process starts.
EmptyCache == [u \in {} |-> 0]
StartCache ==
    /\ extractCache = EmptyCache
    /\ clock = 0
    /\ cached = [url |-> [doc |-> 0, se |-> NoSe], text |-> NoText]
    /\ lastSet = EmptyCache
    /\ sets = 0
    /\ ticks = 0

\* No helper is called alone.
NoCall == [fn |-> "none"]
NoHelper ==
    /\ input = NoCall
    /\ output = NoCall

\* The same with an empty index, and nobody asking for an extraction.
Start ==
    /\ store = EmptyStore
    /\ now = 0
    /\ StartRequests
    /\ cacheUrls = {}
    /\ StartCache
    /\ NoHelper

\* Two requests with one question each, for short documents.
Init ==
    /\ clients = Requests
    /\ lists = {qs \in QuestionLists : Len(qs) = 1}
    /\ texts = ShortTexts
    /\ Start

\* Two requests with one question each, for a document whose extraction gives
\* a text of one chunk or a text of two upsert batches.
InitLong ==
    /\ clients = Requests
    /\ lists = {qs \in QuestionLists : Len(qs) = 1 /\ ~IsBlank(qs[1])}
    /\ texts = {TextOf(1), LongText}
    /\ Start

\* One request with any questions; the document may need two upsert batches.
InitOne ==
    /\ clients = {"A"}
    /\ lists = QuestionLists
    /\ texts = ShortTexts \cup {LongText}
    /\ Start

\* Two requests with one question each, short documents, and the purge.
InitPurge ==
    /\ clients = Requests
    /\ lists = {qs \in QuestionLists : Len(qs) = 1 /\ ~IsBlank(qs[1])}
    /\ texts = ShortTexts
    /\ Start

\* No Q&A request; the extraction endpoint is asked for a URL without an `se`
\* parameter and for one other URL.
InitCache ==
    /\ clients = {}
    /\ lists = {<<1>>}
    /\ texts = {TextOf(1), TextOf(2)}
    /\ store = EmptyStore
    /\ now = 0
    /\ StartRequests
    /\ cacheUrls \in {{url, [doc |-> 1, se |-> NoSe]} : url \in CacheUrls}
    /\ StartCache
    /\ NoHelper

\* No request; chunkText is called alone on a string and a window size.
InitChunk ==
    /\ clients = {}
    /\ lists = {<<1>>}
    /\ texts = ShortTexts
    /\ store = EmptyStore
    /\ now = 0
    /\ StartRequests
    /\ cacheUrls = {}
    /\ StartCache
    /\ input \in [fn : {"chunkText"}, text : Strings, maxWords : (-1)..MaxWindow]
    /\ output = NoCall

\* The candidate embeddings given to findRelevantChunks: up to MaxCandidates.
CandidateLists == UNION {[1..n -> Vectors] : n \in 0..MaxCandidates}

\* Either one request is served by the persisted-index handler, or
\* findRelevantChunks of the in-memory handlers is called alone.
InitRank ==
    \/ /\ clients = {"A"}
       /\ lists = QuestionLists
       /\ texts = ShortTexts
       /\ Start
    \/ /\ clients = {}
       /\ lists = {<<1>>}
       /\ texts = ShortTexts
       /\ store = EmptyStore
       /\ now = 0
       /\ StartRequests
       /\ cacheUrls = {}
       /\ StartCache
       /\ input \in [fn : {"findRelevantChunks"}, query : Vectors \ {<<0, 0>>},
                      docs : CandidateLists, k : (-1)..MaxK]
       /\ output = NoCall

\* One request is served by the persisted-index handler, or
\* getEmbeddingsOptimized is called alone, or the in-memory handler is at its
\* step 3 with its chunks and the questions of its request.
InitEmbed ==
    \/ /\ clients = {"A"}
       /\ lists = QuestionLists
       /\ texts = ShortTexts \cup {LongText}
       /\ Start
    \/ /\ clients = {}
       /\ lists = {<<1>>}
       /\ texts = ShortTexts
       /\ store = EmptyStore
       /\ now = 0
       /\ StartRequests
       /\ cacheUrls = {}
       /\ StartCache
       /\ \/ input \in [fn : {"getEmbeddings"}, texts : TextLists,
                         batchSize : 1..MaxBatchSize]
          \/ input \in [fn : {"POST"}, chunks : 1..MaxChunkCount,
                         questions : 1..MaxQuestionCount]
       /\ output = NoCall

\* No Q&A request; the extraction endpoint is asked.
InitExtract ==
    /\ clients = {}
    /\ lists = {<<1>>}
    /\ texts = ShortTexts
    /\ store = EmptyStore
    /\ now = 0
    /\ StartRequests
    /\ cacheUrls = {}
    /\ StartCache
    /\ NoHelper

\* The same, and the order in which the parts of a split settle is logged.
InitSplit ==
    /\ clients = {}
    /\ lists = {<<1>>}
    /\ texts = ShortTexts
    /\ store = EmptyStore
    /\ now = 0
    /\ StartRequestsWith(EmptyPartLog)
    /\ cacheUrls = {}
    /\ StartCache
    /\ NoHelper

\* One Q&A request for a document that is not in the index, and the extraction
\* endpoint that serves it.
InitIngest ==
    /\ clients = {"A"}
    /\ lists = {<<1>>}
    /\ texts = ShortTexts
    /\ Start

\* calculateSplittingStrategy is called alone, for a first pass or for the
\* retry with smaller parts.
InitPlan ==
    /\ clients = {}
    /\ lists = {<<1>>}
    /\ texts = ShortTexts
    /\ store = EmptyStore
    /\ now = 0
    /\ StartRequests
    /\ cacheUrls = {}
    /\ StartCache
    /\ input \in [fn : {"calculateSplittingStrategy"}, pageCount : 1..MaxPages,
                   forceSmaller : BOOLEAN]
    /\ output = NoCall

\* The in-memory handler has the text of the document of its request: no
\* text, a text of one chunk, of two, of three, of exactly chunkCap chunks, of
\* one more, and a text long enough for the windows of 200 words.
InMemoryTexts == {TextOfWords(1, n) : n \in {0, 1, 301, 601, 30000, 30001, 83334}}
InitInMemory ==
    /\ clients = {}
    /\ lists = {<<1>>}
    /\ texts = ShortTexts
    /\ store = EmptyStore
    /\ now = 0
    /\ StartRequests
    /\ cacheUrls = {}
    /\ StartCache
    /\ input \in [fn : {"POST"}, extractedText : InMemoryTexts, questions : QuestionLists]
    /\ output = NoCall

\* One Q&A request, with any body.
InitValidate ==
    /\ clients = {"A"}
    /\ lists = QuestionLists
    /\ texts = ShortTexts
    /\ store = EmptyStore
    /\ now = 0
    /\ StartRequests
    /\ cacheUrls = {}
    /\ StartCache
    /\ input \in Bodies
    /\ output = NoCall

\* What the Q&A handler and the purge never write: the inputs of the model,
\* the cache of the extraction endpoint and the helpers called alone.
world == <<clients, lists, texts, cacheVars, helperVars, extractVars>>

\* ------------------------------------------------------- POST, step by step
\* The 200 response of POST: NextResponse.json({ answers: results }).
Answers(results) == [status |-> 200, answers |-> results, error |-> ""]
\* POST's inner catch: status 500, "Pinecone operation failed: <message>".
Failure(message) == [status |-> 500, answers |-> <<>>, error |-> message]

\* The handler returns the error response: nothing of it runs afterwards.
Fail(r, message) ==
    /\ pc' = [pc EXCEPT ![r] = "done"]
    /\ response' = [response EXCEPT ![r] = Failure(message)]

\* checkPDFExists with a catch that reports the document as found.
checkPDFExistsFoundOnError(queryRaised, ms) == queryRaised \/ MatchesExist(ms)

\* checkPDFExists: what it returns when its query returned the matches ms, or
\* raised (queryRaised).
checkPDFExists(queryRaised, ms) == IF queryRaised THEN FALSE ELSE MatchesExist(ms)

\* POST without the branch: it always ingests.
AfterCheckAlwaysIngest(exists) == "extract"

\* A POST that never ingests: it goes on to the questions.
AfterCheckNeverIngest(exists) == "embedQuestions"

\* POST's branch on pdfExists: the call it issues next.
AfterCheck(exists) == IF exists THEN "embedQuestions" ELSE "extract"

\* Request o has ingested document u (extracted, embedded, stored) and has
\* answered with 200.
IngestedAndAnswered(o, u) ==
    /\ pc[o] = "done"
    /\ response[o].status = 200
    /\ documents[o] = u
    /\ ~pdfExists[o]

\* POST, from the request's arrival to the await of checkPDFExists' query.
\* The body is one that passes the validation of lines 28-49.
Receive(r) ==
    /\ r \in clients
    /\ pc[r] = "idle"
    /\ \E u \in Urls, qs \in lists :
          /\ documents' = [documents EXCEPT ![r] = u]
          /\ questions' = [questions EXCEPT ![r] = qs]
          /\ hist' = [hist EXCEPT ![r].later = \E o \in Requests : IngestedAndAnswered(o, u)]
    /\ pc' = [pc EXCEPT ![r] = "exists"]
    /\ calls' = [calls EXCEPT ![r] = <<"exists">>]
    /\ UNCHANGED <<world, store, now, pdfExists, extractedText, chunks, chunkEmbeddings,
                   embI, embAcc, createdAt, upI, questionEmbeddings, task,
                   relevantChunks, questionResults, response, purgeVars>>

\* The 400 response of POST's validation.
Rejected(message) == [status |-> 400, answers |-> <<>>, error |-> message]

\* POST, from the request's arrival with the body `input`: the validation of
\* lines 28-49 answers 400, or the handler goes on to the await of
\* checkPDFExists' query.
ReceiveBody(r) ==
    /\ r \in clients
    /\ pc[r] = "idle"
    /\ input \in Bodies
    /\ IF Validate(input) # ""
       THEN /\ pc' = [pc EXCEPT ![r] = "done"]
            /\ response' = [response EXCEPT ![r] = Rejected(Validate(input))]
            /\ UNCHANGED <<documents, questions, calls, hist>>
       ELSE /\ \E u \in Urls :
                  /\ documents' = [documents EXCEPT ![r] = u]
                  /\ hist' = [hist EXCEPT ![r].later =
                                  \E o \in Requests : IngestedAndAnswered(o, u)]
            /\ questions' = [questions EXCEPT ![r] = input.questions.items]
            /\ pc' = [pc EXCEPT ![r] = "exists"]
            /\ calls' = [calls EXCEPT ![r] = <<"exists">>]
            /\ UNCHANGED response
    /\ UNCHANGED <<world, store, now, pdfExists, extractedText, chunks, chunkEmbeddings,
                   embI, embAcc, createdAt, upI, questionEmbeddings, task,
                   relevantChunks, questionResults, purgeVars>>

\* checkPDFExists' query settles; POST branches and issues its next call: the
\* first batch of getEmbeddingsOptimized(questions, 5), or the extraction.
ExistsReturn(r) ==
    /\ pc[r] = "exists"
    /\ \E queryRaised \in BOOLEAN :
          LET exists == checkPDFExists(queryRaised,
                                       IndexQuery(store, ZeroVector, documents[r], 1))
          IN /\ pdfExists' = [pdfExists EXCEPT ![r] = exists]
             /\ pc' = [pc EXCEPT ![r] = AfterCheck(exists)]
             /\ calls' = [calls EXCEPT ![r] = @ \o <<"existsDone", AfterCheck(exists)>>]
             /\ hist' = [hist EXCEPT ![r].existsRaised = queryRaised]
    /\ embI' = [embI EXCEPT ![r] = 0]
    /\ embAcc' = [embAcc EXCEPT ![r] = <<>>]
    /\ UNCHANGED <<world, store, now, documents, questions, extractedText, chunks,
                   chunkEmbeddings, createdAt, upI, questionEmbeddings, task,
                   relevantChunks, questionResults, response, purgeVars>>

\* extractPDFText's fetch settles.  A failed call and an empty text end the
\* request; otherwise processAndStorePDF chunks the text and issues the first
\* batch of getEmbeddingsOptimized(chunks, batchSize).
ExtractReturn(r) ==
    /\ pc[r] = "extract"
    /\ \/ /\ Fail(r, "Extract-text API failed")
          /\ UNCHANGED <<extractedText, chunks, embI, embAcc, calls>>
       \/ /\ extractedText' = [extractedText EXCEPT ![r] = EmptyText]
          /\ Fail(r, "Extracted PDF text is empty")
          /\ UNCHANGED <<chunks, embI, embAcc, calls>>
       \/ \E text \in texts :
             /\ extractedText' = [extractedText EXCEPT ![r] = text]
             /\ chunks' = [chunks EXCEPT ![r] = chunkText(text, chunkSizeFor(text))]
             /\ embI' = [embI EXCEPT ![r] = 0]
             /\ embAcc' = [embAcc EXCEPT ![r] = <<>>]
             /\ pc' = [pc EXCEPT ![r] = "embedChunks"]
             /\ calls' = [calls EXCEPT ![r] = Append(@, "embedChunks")]
             /\ UNCHANGED response
    /\ UNCHANGED <<world, store, now, documents, questions, pdfExists, chunkEmbeddings,
                   createdAt, upI, questionEmbeddings, task, relevantChunks,
                   questionResults, hist, purgeVars>>

\* getEmbeddingsOptimized runs for the chunks or for the questions.
ForChunks(r) == pc[r] \in {"embedChunks", "embedChunksDelay"}
EmbTexts(r) == IF ForChunks(r) THEN chunks[r] ELSE questions[r]
EmbBatchSize(r) == IF ForChunks(r) THEN chunkBatchSize(chunks[r]) ELSE questionBatchSize

\* What the promise of a question has resolved to, and a promise still pending.
Result(q, answer, index) == [question |-> q, answer |-> answer, index |-> index]
Pending == Result(0, [kind |-> "pending", q |-> 0, context |-> ContextOf(<<>>)], -1)

\* storePDFChunks' vectors: prepared from its arguments and the time it read
\* before the first upsert.
vectors(r) == PrepareVectors(documents[r], chunks[r], chunkEmbeddings[r], createdAt[r])

\* storePDFChunks up to the await of its first upsert.
StartStore(r, embs) ==
    /\ chunkEmbeddings' = [chunkEmbeddings EXCEPT ![r] = embs]
    /\ createdAt' = [createdAt EXCEPT ![r] = now]
    /\ now' = now + 1
    /\ upI' = [upI EXCEPT ![r] = 0]
    /\ pc' = [pc EXCEPT ![r] = "upsert"]
    /\ calls' = [calls EXCEPT ![r] = Append(@, "upsert")]
    /\ UNCHANGED <<questionEmbeddings, task, relevantChunks, questionResults, hist>>

\* The calls the question tasks issue when they start, in question order.
RECURSIVE QueryCalls(_)
QueryCalls(qs) ==
    IF qs = <<>> THEN <<>>
    ELSE (IF IsBlank(Head(qs)) THEN <<>> ELSE <<"query">>) \o QueryCalls(Tail(qs))

\* The (1-based) positions of the blank questions, in question order.
RECURSIVE BlankPositions(_, _)
BlankPositions(qs, i) ==
    IF i > Len(qs) THEN <<>>
    ELSE (IF IsBlank(qs[i]) THEN <<i>> ELSE <<>>) \o BlankPositions(qs, i + 1)

\* processQuestionsWithPinecone up to Promise.all: questions.map starts one task
\* per question; each runs to its first await (the query of getTopKChunks), a
\* blank question's task returns at once.
StartQuestions(r, embs) ==
    /\ questionEmbeddings' = [questionEmbeddings EXCEPT ![r] = embs]
    /\ task' = [task EXCEPT ![r] =
          [i \in DOMAIN questions[r] |->
              IF IsBlank(questions[r][i]) THEN "done" ELSE "query"]]
    /\ questionResults' = [questionResults EXCEPT ![r] =
          [i \in DOMAIN questions[r] |->
              IF IsBlank(questions[r][i])
              THEN Result(questions[r][i], EmptyQuestionAnswer, i - 1)
              ELSE Pending]]
    /\ relevantChunks' = [relevantChunks EXCEPT ![r] = [i \in DOMAIN questions[r] |-> <<>>]]
    /\ pc' = [pc EXCEPT ![r] = "questions"]
    /\ calls' = [calls EXCEPT ![r] = @ \o QueryCalls(questions[r])]
    /\ hist' = [hist EXCEPT ![r].order = BlankPositions(questions[r], 1)]
    /\ UNCHANGED <<chunkEmbeddings, createdAt, now, upI>>

\* One embeddings.create call of getEmbeddingsOptimized settles.  A failure is
\* rethrown as "Failed to generate embeddings" and ends the request.  After the
\* last batch the caller goes on: storePDFChunks for the chunks, the question
\* tasks for the questions.
EmbedReturn(r) ==
    /\ pc[r] \in {"embedChunks", "embedQuestions"}
    /\ \/ /\ Fail(r, "Failed to generate embeddings")
          /\ UNCHANGED <<embAcc, chunkEmbeddings, createdAt, now, upI, calls, hist,
                         questionEmbeddings, task, relevantChunks, questionResults>>
       \/ LET inputs == EmbTexts(r)
              acc == embAcc[r] \o EmbedBatch(Slice(inputs, embI[r], embI[r] + EmbBatchSize(r)))
          IN /\ UNCHANGED response
             /\ embAcc' = [embAcc EXCEPT ![r] =
                   IF embI[r] + EmbBatchSize(r) < Len(inputs) THEN acc ELSE <<>>]
             /\ IF embI[r] + EmbBatchSize(r) < Len(inputs)
                THEN /\ pc' = [pc EXCEPT ![r] =
                            IF ForChunks(r) THEN "embedChunksDelay" ELSE "embedQuestionsDelay"]
                     /\ UNCHANGED <<chunkEmbeddings, createdAt, now, upI, calls, hist,
                                    questionEmbeddings, task, relevantChunks,
                                    questionResults>>
                ELSE IF ForChunks(r)
                     THEN StartStore(r, acc)
                     ELSE StartQuestions(r, acc)
    /\ UNCHANGED <<world, store, documents, questions, pdfExists, extractedText, chunks,
                   embI, purgeVars>>

\* The 100 ms pause between two batches is over: i += batchSize, next call.
EmbedDelayDone(r) ==
    /\ pc[r] \in {"embedChunksDelay", "embedQuestionsDelay"}
    /\ embI' = [embI EXCEPT ![r] = @ + EmbBatchSize(r)]
    /\ pc' = [pc EXCEPT ![r] = IF ForChunks(r) THEN "embedChunks" ELSE "embedQuestions"]
    /\ calls' = [calls EXCEPT ![r] =
          Append(@, IF ForChunks(r) THEN "embedChunks" ELSE "embedQuestions")]
    /\ UNCHANGED <<world, store, now, documents, questions, pdfExists, extractedText,
                   chunks, chunkEmbeddings, embAcc, createdAt, upI,
                   questionEmbeddings, task, relevantChunks, questionResults,
                   response, hist, purgeVars>>

\* storePDFChunks with a catch that does not rethrow: the loop goes on.
AfterUpsertSwallowing(raised, i, n) ==
    IF i + upsertBatchSize < n THEN "upsert" ELSE "return"

\* storePDFChunks when the upsert of the batch at i of n vectors has settled:
\* "throw" when it raised (the catch rethrows), "upsert" when a batch is left,
\* else "return".
AfterUpsert(raised, i, n) ==
    IF raised THEN "throw"
    ELSE IF i + upsertBatchSize < n THEN "upsert"
    ELSE "return"

\* One index.upsert of storePDFChunks settles.  A failure is rethrown and ends
\* the request.  After the last batch POST issues the first batch of
\* getEmbeddingsOptimized(questions, 5).
UpsertReturn(r) ==
    /\ pc[r] = "upsert"
    /\ \E raised \in BOOLEAN :
          LET step == AfterUpsert(raised, upI[r], Len(chunks[r]))
          IN /\ hist' = [hist EXCEPT ![r].upsertRaised = raised]
             /\ IF raised
                THEN UNCHANGED <<store, upI>>
                ELSE /\ store' = Upsert(store, Slice(vectors(r), upI[r],
                                                     upI[r] + upsertBatchSize))
                     /\ upI' = [upI EXCEPT ![r] = @ + upsertBatchSize]
             /\ CASE step = "throw" ->
                       /\ Fail(r, "upsert failed")
                       /\ UNCHANGED <<embI, embAcc, calls>>
                  [] step = "upsert" ->
                       /\ calls' = [calls EXCEPT ![r] = Append(@, "upsert")]
                       /\ UNCHANGED <<pc, embI, embAcc, response>>
                  [] step = "return" ->
                       /\ pc' = [pc EXCEPT ![r] = "embedQuestions"]
                       /\ embI' = [embI EXCEPT ![r] = 0]
                       /\ embAcc' = [embAcc EXCEPT ![r] = <<>>]
                       /\ calls' = [calls EXCEPT ![r] = Append(@, "embedQuestions")]
                       /\ UNCHANGED response
    /\ UNCHANGED <<world, now, documents, questions, pdfExists, extractedText, chunks,
                   chunkEmbeddings, createdAt, questionEmbeddings, task,
                   relevantChunks, questionResults, purgeVars>>

\* The matches of a query in the order the index returns them.
Reorder(ms, ord) == [k \in 1..Len(ms) |-> ms[ord[k]]]

\* getTopKChunks that gives the texts of the matches whatever its query did.
getTopKChunksUncaught(queryRaised, ms) == MatchTexts(ms)

\* getTopKChunks, after its query returned the matches ms or raised: the texts
\* of the matches, or [] from its catch.
getTopKChunks(queryRaised, ms) == IF queryRaised THEN <<>> ELSE MatchTexts(ms)

\* The task without its catch's error string: a failed synthesis leaves an
\* answer on no context.
TaskAnswerHidingFailure(q, synthRaised, cs) ==
    IF synthRaised THEN SynthAnswer(q, <<>>) ELSE SynthAnswer(q, cs)

\* The task of a question after askOpenRouterOptimized returned or raised: the
\* answer, or the error string of the task's catch.
TaskAnswer(q, synthRaised, cs) ==
    IF synthRaised THEN FailedAnswer(q) ELSE SynthAnswer(q, cs)

\* getTopKChunks' query of question i settles; then the task awaits
\* askOpenRouterOptimized's fetch.
QueryReturn(r, i) ==
    /\ pc[r] = "questions"
    /\ i \in DOMAIN task[r]
    /\ task[r][i] = "query"
    /\ \E queryRaised \in BOOLEAN :
          LET ms == IndexQuery(store, questionEmbeddings[r][i], documents[r], topK)
          IN /\ \E ord \in Permutations(1..Len(ms)) :
                   relevantChunks' = [relevantChunks EXCEPT ![r][i] =
                       getTopKChunks(queryRaised, Reorder(ms, ord))]
             /\ hist' = [hist EXCEPT ![r].queryRaised =
                            IF queryRaised THEN @ \cup {i} ELSE @]
    /\ task' = [task EXCEPT ![r][i] = "synth"]
    /\ calls' = [calls EXCEPT ![r] = Append(@, "synth")]
    /\ UNCHANGED <<world, store, now, pc, documents, questions, pdfExists, extractedText,
                   chunks, chunkEmbeddings, embI, embAcc, createdAt, upI,
                   questionEmbeddings, questionResults, response, purgeVars>>

\* askOpenRouterOptimized's fetch of question i settles: the answer, or (not
\* ok, no content) an error that the task's catch turns into the error string.
SynthReturn(r, i) ==
    /\ pc[r] = "questions"
    /\ i \in DOMAIN task[r]
    /\ task[r][i] = "synth"
    /\ \E synthRaised \in BOOLEAN :
          /\ questionResults' = [questionResults EXCEPT ![r][i] =
                Result(questions[r][i],
                       TaskAnswer(questions[r][i], synthRaised, relevantChunks[r][i]),
                       i - 1)]
          /\ hist' = [hist EXCEPT ![r].synthRaised =
                         IF synthRaised THEN @ \cup {i} ELSE @,
                                  ![r].order = Append(@, i)]
    /\ task' = [task EXCEPT ![r][i] = "done"]
    /\ UNCHANGED <<world, store, now, pc, documents, questions, pdfExists, extractedText,
                   chunks, chunkEmbeddings, embI, embAcc, createdAt, upI,
                   questionEmbeddings, relevantChunks, response, calls, purgeVars>>

\* Promise.all resolves with the results in the order of the promises: sort by
\* index, keep the answers, respond.
Respond(r) ==
    /\ pc[r] = "questions"
    /\ \A i \in DOMAIN task[r] : task[r][i] = "done"
    /\ LET sorted == SortByIndex(questionResults[r])
       IN response' = [response EXCEPT ![r] =
             Answers([k \in 1..Len(sorted) |-> sorted[k].answer])]
    /\ pc' = [pc EXCEPT ![r] = "done"]
    /\ UNCHANGED <<world, store, now, documents, questions, pdfExists, extractedText,
                   chunks, chunkEmbeddings, embI, embAcc, createdAt, upI,
                   questionEmbeddings, task, relevantChunks, questionResults,
                   calls, hist, purgeVars>>

\* ------------------------------------------------ deletePDFChunks, by step
\* deletePDFChunks(u) up to the await of its enumeration query.
PurgeStart(u) ==
    /\ purgePc = "idle"
    /\ purges < MaxPurges
    /\ purgePc' = "query"
    /\ purgeUrl' = u
    /\ purges' = purges + 1
    /\ UNCHANGED <<world, store, now, reqVars, chunkIds>>

\* The enumeration query settles: no match or an error ends the call, else
\* deleteMany is awaited.
PurgeQueryReturn ==
    /\ purgePc = "query"
    /\ \/ /\ purgePc' = "idle"
          /\ UNCHANGED chunkIds
       \/ \E ids \in EnumerateIds(store, purgeUrl, purgeTopK) :
             /\ chunkIds' = ids
             /\ purgePc' = IF ids # {} THEN "delete" ELSE "idle"
    /\ UNCHANGED <<world, store, now, reqVars, purgeUrl, purges>>

\* deleteMany settles: the records are gone, or the call raised.
PurgeDeleteReturn ==
    /\ purgePc = "delete"
    /\ \/ store' = DeleteMany(store, chunkIds)
       \/ UNCHANGED store
    /\ purgePc' = "idle"
    /\ UNCHANGED <<world, now, reqVars, purgeUrl, chunkIds, purges>>

\* ------------------------------------------ the extraction cache, by call
\* setCachedText(url, text).  computeTTL and setCachedText each read Date.now():
\* the second reading is the first or one ms later.
SetCachedText(url, text) ==
    /\ sets < MaxSets
    /\ url \in cacheUrls
    /\ \E late \in {0, 1} :
          LET ttlMs == computeTTL(url, clock)
              entry == [text |-> text, expiresAt |-> clock + late + ttlMs]
          IN /\ extractCache' = [u \in DOMAIN extractCache \cup {url} |->
                                    IF u = url THEN entry ELSE extractCache[u]]
             /\ lastSet' = [u \in DOMAIN lastSet \cup {url} |->
                               IF u = url
                               THEN [text |-> text, at |-> clock, ttlMs |-> ttlMs,
                                     expiresAt |-> entry.expiresAt]
                               ELSE lastSet[u]]
             /\ clock' = clock + late
    /\ sets' = sets + 1
    /\ UNCHANGED <<clients, lists, texts, store, now, reqVars, purgeVars, cacheUrls,
                   cached, ticks, helperVars, extractVars>>

\* getCachedText(url): no entry, an expired entry (deleted), or the text.
GetCachedText(url) ==
    /\ url \in cacheUrls
    /\ IF url \notin DOMAIN extractCache
       THEN /\ cached' = [url |-> url, text |-> NoText]
            /\ UNCHANGED extractCache
       ELSE IF Expired(extractCache[url], clock)
       THEN /\ extractCache' = [u \in DOMAIN extractCache \ {url} |-> extractCache[u]]
            /\ cached' = [url |-> url, text |-> NoText]
       ELSE /\ cached' = [url |-> url, text |-> extractCache[url].text]
            /\ UNCHANGED extractCache
    /\ UNCHANGED <<clients, lists, texts, store, now, reqVars, purgeVars, cacheUrls,
                   clock, lastSet, sets, ticks, helperVars, extractVars>>

\* Time passes: two hours or a week.
Tick ==
    /\ ticks < MaxTicks
    /\ ticks' = ticks + 1
    /\ \E ms \in {2 * HourMs, 7 * DayMs} :
          /\ clock + ms <= MaxClockDays * DayMs
          /\ clock' = clock + ms
    /\ UNCHANGED <<clients, lists, texts, store, now, reqVars, purgeVars, cacheUrls,
                   extractCache, cached, lastSet, sets, helperVars, extractVars>>

\* ------------------------------------------------- helpers called alone
\* What stays as it is when a helper is called alone.
rest == <<clients, lists, texts, store, now, reqVars, purgeVars, cacheVars, extractVars>>

\* chunkText of run/route.ts is called with the input.
CallChunkText ==
    /\ input.fn = "chunkText"
    /\ output = NoCall
    /\ output' = [fn |-> "chunkText", of |-> "run",
                  result |-> chunkTextChars(input.text, input.maxWords)]
    /\ UNCHANGED <<rest, input>>

\* chunkText of extract-text/route.ts is called with the input.
CallChunkTextInMemory ==
    /\ input.fn = "chunkText"
    /\ output = NoCall
    /\ output' = [fn |-> "chunkText", of |-> "extract-text",
                  result |-> chunkTextInMemory(input.text, input.maxWords)]
    /\ UNCHANGED <<rest, input>>

\* The chunks given to findRelevantChunks with the embeddings docs: chunk i
\* is the text i.
ChunksOf(docs) == [i \in DOMAIN docs |-> i]

\* findRelevantChunks of the parallel in-memory handler is called.
CallFindRelevantChunks ==
    /\ input.fn = "findRelevantChunks"
    /\ output = NoCall
    /\ output' = [fn |-> "findRelevantChunks", of |-> "parallel",
                  result |-> findRelevantChunks(input.query, input.docs,
                                                ChunksOf(input.docs), input.k,
                                                defaultTopK)]
    /\ UNCHANGED <<rest, input>>

\* findRelevantChunks of the sequential in-memory handler is called.
CallFindRelevantChunksSequential ==
    /\ input.fn = "findRelevantChunks"
    /\ output = NoCall
    /\ output' = [fn |-> "findRelevantChunks", of |-> "sequential",
                  result |-> findRelevantChunks(input.query, input.docs,
                                                ChunksOf(input.docs), input.k,
                                                defaultTopKSequential)]
    /\ UNCHANGED <<rest, input>>

\* getEmbeddingsOptimized(texts, batchSize) is called alone.
CallGetEmbeddingsOptimized ==
    /\ input.fn = "getEmbeddings"
    /\ output = NoCall
    /\ output' = [fn |-> "getEmbeddings",
                  runs |-> [w \in {"call"} |-> StartRun(input.texts, input.batchSize)],
                  response |-> NotAwaited]
    /\ UNCHANGED <<rest, input>>

\* The in-memory handler reaches its step 3: both getEmbeddings calls start.
PostEmbeddings ==
    /\ input.fn = "POST"
    /\ output = NoCall
    /\ LET runs == [w \in {"chunks", "questions"} |->
                       StartRun(Numbered(input[w]), embedBatchSize)]
       IN output' = [fn |-> "POST", runs |-> runs,
                     response |-> AllSettled(runs, AwaitingEmbeddings)]
    /\ UNCHANGED <<rest, input>>

\* embeddings.create of call w settles; a handler awaiting Promise.all goes on.
EmbeddingsCreateReturn(w) ==
    /\ output.fn \in {"getEmbeddings", "POST"}
    /\ w \in DOMAIN output.runs
    /\ output.runs[w].at = "create"
    /\ \E raised \in BOOLEAN :
          LET runs == [output.runs EXCEPT ![w] = AfterCreate(@, raised)]
          IN output' = [output EXCEPT !.runs = runs,
                                      !.response = IF output.fn = "POST"
                                                   THEN AllSettled(runs, @) ELSE @]
    /\ UNCHANGED <<rest, input>>

\* The pause of call w between two batches is over.
EmbeddingsDelayDone(w) ==
    /\ output.fn \in {"getEmbeddings", "POST"}
    /\ w \in DOMAIN output.runs
    /\ output.runs[w].at = "delay"
    /\ output' = [output EXCEPT !.runs[w] = AfterDelay(@)]
    /\ UNCHANGED <<rest, input>>

\* ------------------------------------------ the in-memory handler's steps
\* The most chunks the handler keeps, and the topK it asks the retriever for.
chunkCap == 100
inMemoryTopK == 2

\* POST, step 2: windows of 200 words for a text above 500000 characters,
\* else of 300.
inMemoryChunkSize(text) == IF text.length > 500000 THEN 200 ELSE 300

\* POST, step 2: if (chunks.length > 100) chunks = chunks.slice(0, 100).
CapChunks(cs) == IF Len(cs) > chunkCap THEN SubSeq(cs, 1, chunkCap) ELSE cs

\* askOpenAI: const context = contextChunks.join('\n\n').
askOpenAIContext(cs) == [parts |-> cs, length |-> JoinedLength(cs)]
\* What the language model answers to question q when askOpenAI asks it.
OpenAIAnswer(q, cs) == [kind |-> "answer", q |-> q, context |-> askOpenAIContext(cs)]

\* The body of a response of the handler: its keys and their values.
InMemoryResponse(status, keys, answers, error) ==
    [status |-> status, keys |-> keys, answers |-> answers, error |-> error]
NoInMemoryResponse == InMemoryResponse(0, {}, <<>>, "")
InMemoryAnswers(results) == InMemoryResponse(200, {"answers"}, results, "")
InMemoryFailure(message) == InMemoryResponse(500, {"error"}, <<>>, message)

\* The handler after step `at`: the chunks it kept, how many chunks
\* chunkText had returned, the context askOpenAI was called with for each
\* question (<<>> when it was not called), the answers so far.
InMemory(at, chunked, kept, asked, answers, resp) ==
    [fn |-> "POST", at |-> at, chunked |-> chunked, chunks |-> kept, asked |-> asked,
     answers |-> answers, response |-> resp]

\* findRelevantChunks(..., chunks, 2) returns the chunks whose embeddings the
\* scores rank first, whichever they are: the rankings tried here are those
\* of the first, the second and the last chunk.
RankedFirst(cs) ==
    LET some == {1, 2, Len(cs)} \cap DOMAIN cs
        n == ClampTopK(inMemoryTopK, Len(cs), defaultTopK)
    IN {top \in [1..n -> some] : \A j, k \in 1..n : j # k => top[j] # top[k]}

\* A question whose promise is pending.
NoAnswerYet == [kind |-> "pending", q |-> 0, context |-> askOpenAIContext(<<>>)]

\* POST, step 2: the empty text is answered with 500; else the text is
\* chunked, the chunks are capped, and both getEmbeddings calls are issued.
PostChunk ==
    /\ input.fn = "POST"
    /\ output = NoCall
    /\ LET text == input.extractedText
           cs == chunkText(text, inMemoryChunkSize(text))
           none == [i \in DOMAIN input.questions |-> <<>>]
           pending == [i \in DOMAIN input.questions |-> NoAnswerYet]
       IN output' = IF text.nwords = 0
                    THEN InMemory("done", 0, <<>>, none, pending,
                                  InMemoryFailure("Failed to process the document content."))
                    ELSE InMemory("embeddings", Len(cs), CapChunks(cs), none, pending,
                                  NoInMemoryResponse)
    /\ UNCHANGED <<rest, input>>

\* What the promise of question i called askOpenAI with: nothing for a blank
\* question, else the context of the chunks ranked first.
Asked(i, top, cs) ==
    IF IsBlank(input.questions[i]) THEN <<>>
    ELSE <<askOpenAIContext([j \in DOMAIN top |-> cs[top[j]]])>>

\* All promises have settled: Promise.all resolves, the answers are sorted by
\* index and the handler responds with { answers }.
AfterAnswer(out) ==
    IF \A i \in DOMAIN out.answers : out.answers[i].kind # "pending"
    THEN [out EXCEPT !.at = "done", !.response = InMemoryAnswers(out.answers)]
    ELSE out

\* POST, step 3: Promise.all of the getEmbeddings calls settles.  A failure is
\* answered with 500; else step 4 maps the questions to their promises.
PostEmbeddingsReturn ==
    /\ output.fn = "POST"
    /\ output.at = "embeddings"
    /\ \/ output' = [output EXCEPT !.at = "done",
                                    !.response = InMemoryFailure("Failed to generate embeddings.")]
       \/ \E tops \in [DOMAIN input.questions -> RankedFirst(output.chunks)] :
             output' = AfterAnswer(
                 [output EXCEPT !.at = "questions",
                                !.asked = [i \in DOMAIN input.questions |->
                                              Asked(i, tops[i], output.chunks)],
                                !.answers = [i \in DOMAIN input.questions |->
                                                IF IsBlank(input.questions[i])
                                                THEN EmptyQuestionAnswer
                                                ELSE NoAnswerYet]])
    /\ UNCHANGED <<rest, input>>

\* askOpenAI of question i settles: its answer, or the error answer of the
\* promise's catch; the last promise to settle lets the handler respond.
AskOpenAIReturn(i) ==
    /\ output.fn = "POST"
    /\ output.at = "questions"
    /\ i \in DOMAIN output.answers
    /\ output.answers[i].kind = "pending"
    /\ \E raised \in BOOLEAN :
          LET q == input.questions[i]
              answer == IF raised THEN FailedAnswer(q)
                        ELSE OpenAIAnswer(q, output.asked[i][1].parts)
          IN output' = AfterAnswer([output EXCEPT !.answers[i] = answer])
    /\ UNCHANGED <<rest, input>>

\* --------------------------------------------- extract-text, step by step
\* Up to MaxExtractions requests arrive, one after the other, for one document
\* of a size below or above the limits and of a page count on either side of
\* ADOBE_PAGE_LIMIT.
MaxExtractions == 2
ExtractUrl == [doc |-> 1, se |-> NoSe]
ExtractRequests ==
    [variant : {1, 2}, url : {"missing", "invalid", "valid"},
     size : {1048576, 62914560, 125829120}, pageCount : {150, 300, 301}]

\* What the extraction handler does not write, but for the cache's Map.
others == <<clients, lists, texts, store, now, reqVars, purgeVars, helperVars,
            cacheUrls, clock, cached, lastSet, sets, ticks>>

\* NextResponse.json({ text, warning }) and the error responses.
TextResponse(text, warning) ==
    [status |-> 200, text |-> text, warning |-> warning, error |-> "", details |-> ""]
ErrorResponse(status, error) ==
    [status |-> status, text |-> Undefined, warning |-> "", error |-> error, details |-> ""]
\* The handler returns the response.
ExtractRespond(resp) ==
    /\ extractPc' = "done"
    /\ extractResponse' = resp

\* The outer catch of POST: the error's message is in the details.
RequestFailed(message) ==
    [status |-> 500, text |-> Undefined, warning |-> "",
     error |-> IF extractReq.variant = 1 THEN "Request failed" ELSE "Failed to process PDF",
     details |-> message]
\* MAX_FILE_SIZE of the variant.
MaxFileSize(variant) == IF variant = 1 THEN MAX_FILE_SIZE_FIRST ELSE MAX_FILE_SIZE

\* getCachedText(url) of the handler: the text of an entry not expired, else
\* null; an expired entry is deleted.
CacheHit(url) == url \in DOMAIN extractCache /\ ~Expired(extractCache[url], clock)
CacheAfterGet(url) ==
    IF url \in DOMAIN extractCache /\ Expired(extractCache[url], clock)
    THEN [u \in DOMAIN extractCache \ {url} |-> extractCache[u]]
    ELSE extractCache
\* A setCachedText that writes the text under every key of the Map.
CacheAfterSetEvery(url, text) ==
    [u \in DOMAIN extractCache \cup {url} |->
        [text |-> text, expiresAt |-> clock + computeTTL(url, clock)]]
\* setCachedText(url, text) of the handler.
CacheAfterSet(url, text) ==
    [u \in DOMAIN extractCache \cup {url} |->
        IF u = url THEN [text |-> text, expiresAt |-> clock + computeTTL(url, clock)]
        ELSE extractCache[u]]

\* The same without the warning of the empty document.
FinishSilently(text) ==
    IF ~Truthy(text) \/ ~Trimmed(text)
    THEN /\ ExtractRespond(TextResponse(EmptyString, ""))
         /\ UNCHANGED extractCache
    ELSE /\ ExtractRespond(TextResponse(text, ""))
         /\ extractCache' = CacheAfterSet(ExtractUrl, text)

\* POST of the second variant after processNormalPDF or
\* processLargePDFWithSplitting returned: the empty document with its warning,
\* or the text, cached.
Finish(text) ==
    IF ~Truthy(text) \/ ~Trimmed(text)
    THEN /\ ExtractRespond(TextResponse(EmptyString, "All PDF processing strategies failed"))
         /\ UNCHANGED extractCache
    ELSE /\ ExtractRespond(TextResponse(text, ""))
         /\ extractCache' = CacheAfterSet(ExtractUrl, text)

\* A request arrives when none is being served: validation, then the cache
\* fast path, then the download starts.
ExtractReceive(req) ==
    /\ extractPc \in {"idle", "done"}
    /\ extractions < MaxExtractions
    /\ extractions' = extractions + 1
    /\ extractReq' = req
    /\ invoked' = <<>>
    /\ passes' = <<>>
    /\ IF req.url = "missing"
       THEN /\ ExtractRespond(ErrorResponse(400, "Missing URL"))
            /\ UNCHANGED extractCache
       ELSE IF req.url = "invalid"
       THEN /\ ExtractRespond(ErrorResponse(400, "Invalid URL format"))
            /\ UNCHANGED extractCache
       ELSE /\ extractCache' = CacheAfterGet(ExtractUrl)
            /\ IF CacheHit(ExtractUrl) /\ Truthy(extractCache[ExtractUrl].text)
               THEN ExtractRespond(TextResponse(extractCache[ExtractUrl].text, ""))
               ELSE /\ extractPc' = "fetch"
                    /\ extractResponse' = NoExtractResponse
    /\ partLog' = [partLog EXCEPT !.events = <<>>]
    /\ UNCHANGED others

\* fetch(url) settles: it raised, or the status is not ok (502), or the
\* content-length header tells of too large a file (413), or the body is read.
ExtractFetchReturn ==
    /\ extractPc = "fetch"
    /\ \E outcome \in {"ok", "notOk", "raised"}, contentLength \in {0, extractReq.size} :
          IF outcome = "raised" THEN ExtractRespond(RequestFailed("fetch failed"))
          ELSE IF outcome = "notOk"
          THEN ExtractRespond(ErrorResponse(502, "Failed to download PDF"))
          ELSE IF contentLength > MaxFileSize(extractReq.variant)
          THEN ExtractRespond(ErrorResponse(413, "File size exceeds limit"))
          ELSE /\ extractPc' = "body"
               /\ UNCHANGED extractResponse
    /\ UNCHANGED <<others, partLog, extractCache, extractReq, invoked, passes, extractions>>

\* The timer of the AbortController fires before fetch settled: fetch rejects.
ExtractFetchAborted ==
    /\ extractPc = "fetch"
    /\ ExtractRespond(RequestFailed("This operation was aborted"))
    /\ UNCHANGED <<others, partLog, extractCache, extractReq, invoked, passes, extractions>>

\* response.arrayBuffer() settles: too large a body (413), or the extraction
\* starts: getPDFInfo for a document above CHUNK_SIZE_LIMIT in the second
\* variant, else tryAdobeExtract.
ExtractBodyReturn ==
    /\ extractPc = "body"
    /\ \E raised \in BOOLEAN :
          IF raised THEN ExtractRespond(RequestFailed("terminated"))
          ELSE IF extractReq.size > MaxFileSize(extractReq.variant)
          THEN ExtractRespond(ErrorResponse(413, "File size exceeds limit"))
          ELSE /\ extractPc' = IF extractReq.variant = 2 /\ extractReq.size > CHUNK_SIZE_LIMIT
                               THEN "info" ELSE "extract"
               /\ UNCHANGED extractResponse
    /\ UNCHANGED <<others, partLog, extractCache, extractReq, invoked, passes, extractions>>

\* A tier was invoked and gave the text; how: it "returned" it, or it "raised"
\* or ran into its "timeout" and '' stands for its text.
Invoked(tier, chars, how) == [tier |-> tier, chars |-> chars, how |-> how]
How(raised) == IF raised THEN "raised" ELSE "returned"

\* tryAdobeExtract settles (its own catch turns a failure into ''): the text
\* ends the request, no text leads to tryAdobeOCR.
AdobeExtractReturn ==
    /\ extractPc = "extract"
    /\ \E t \in TierTexts, raised \in BOOLEAN :
          LET chars == IF raised THEN <<>> ELSE t
          IN /\ invoked' = Append(invoked, Invoked("extract", chars, How(raised)))
             /\ IF HasText(chars)
                THEN /\ ExtractRespond(TextResponse(StringOf(chars), ""))
                     /\ extractCache' = CacheAfterSet(ExtractUrl, StringOf(chars))
                ELSE /\ extractPc' = "ocr"
                     /\ UNCHANGED <<extractResponse, extractCache>>
    /\ UNCHANGED <<others, partLog, extractReq, passes, extractions>>

\* The same tiers with tryRawPDFExtraction run whatever the tier before gave.
AfterOCRAllTiers(len, raised, ocrText, rawText) ==
    <<Invoked("ocr", <<>>, How(raised))>> \o
    (IF len > 0 THEN <<Invoked("textBased", ocrText, "returned")>> ELSE <<>>) \o
    <<Invoked("raw", rawText, "returned")>>

\* The tiers processNormalPDF runs after tryAdobeOCR gave a buffer of length
\* len: tryTextBasedExtraction on the buffer (ocrText) when it is not empty,
\* then tryRawPDFExtraction (rawText); none of them awaits anything.
AfterOCR(len, raised, ocrText, rawText) ==
    <<Invoked("ocr", <<>>, How(raised))>> \o
    (IF len > 0 THEN <<Invoked("textBased", ocrText, "returned")>> ELSE <<>>) \o
    (IF len > 0 /\ HasText(ocrText) THEN <<>> ELSE <<Invoked("raw", rawText, "returned")>>)

\* tryAdobeOCR settles (a failure gives the empty buffer).  First variant: the
\* buffer is parsed by pdf.js, no buffer ends the request with a warning.
\* Second variant: processNormalPDF runs its last tiers and POST responds.
AdobeOCRReturn ==
    /\ extractPc = "ocr"
    /\ \E len \in {0, 1}, raised \in BOOLEAN, ocrText \in TierTexts, rawText \in {<<>>, <<"a">>} :
          /\ raised => len = 0
          /\ IF extractReq.variant = 1
             THEN /\ invoked' = Append(invoked, Invoked("ocr", <<>>, How(raised)))
                  /\ UNCHANGED extractCache
                  /\ IF len > 0
                     THEN /\ extractPc' = "parse"
                          /\ UNCHANGED extractResponse
                     ELSE ExtractRespond(TextResponse(EmptyString, "No text extracted"))
             ELSE LET tiers == AfterOCR(len, raised, ocrText, rawText)
                  IN /\ invoked' = invoked \o tiers
                     /\ Finish(StringOf(tiers[Len(tiers)].chars))
    /\ UNCHANGED <<others, partLog, extractReq, passes, extractions>>

\* The response of the first variant after parseWithTimeout gave ocrText.
AfterParse(chars) ==
    /\ extractCache' = IF HasText(chars) THEN CacheAfterSet(ExtractUrl, StringOf(chars))
                       ELSE extractCache
    /\ ExtractRespond(TextResponse(StringOf(chars),
                                   IF chars # <<>> THEN "" ELSE "No text extracted after OCR"))

\* parseWithTimeout: extractTextFromPDFBuffer settles (a failure gives '').
ParseReturn ==
    /\ extractPc = "parse"
    /\ \E t \in TierTexts, raised \in BOOLEAN :
          LET chars == IF raised THEN <<>> ELSE t
          IN /\ invoked' = Append(invoked, Invoked("parse", chars, How(raised)))
             /\ AfterParse(chars)
    /\ UNCHANGED <<others, partLog, extractReq, passes, extractions>>

\* parseWithTimeout: the timer resolves '' first.
ParseTimeout ==
    /\ extractPc = "parse"
    /\ invoked' = Append(invoked, Invoked("parse", <<>>, "timeout"))
    /\ AfterParse(<<>>)
    /\ UNCHANGED <<others, partLog, extractReq, passes, extractions>>

\* ---- processLargePDFWithSplitting
\* A part before createSinglePDFPart settled, and a part that settled.
PartAt(at, value) == [at |-> at, value |-> value]
\* A pass: its strategy, the parts processPDFPartLazy was called for, in the
\* order of the calls, and where each part is.
NewPass(strategy, cap) ==
    [strategy |-> strategy,
     called |-> [k \in PartsOfPass(cap, strategy) |-> k],
     parts |-> [k \in PartsOfPass(cap, strategy) |-> PartAt("create", NoPartText)]]

\* The pass that is running.
ThisPass == passes[Len(passes)]
\* The first strategy and the parts it had processed.
FirstStrategy == passes[1].strategy
Settled(parts) ==
    \A k \in DOMAIN parts : parts[k].at \in {"settled", "timeout", "createTimeout"}
\* The log after part k of the running pass settled (how) with the value.
PartEvent(pass, k, how, value) == [pass |-> pass, part |-> k, how |-> how, value |-> value]
Logged(k, how, value) ==
    IF partLog.on
    THEN [partLog EXCEPT !.events = Append(@, PartEvent(Len(passes), k, how, value))]
    ELSE partLog
\* The results of a join that one failed part fails as a whole.
ResultsOfAllOrNone(parts) ==
    [k \in DOMAIN parts |->
        IF \E j \in DOMAIN parts : parts[j].value = NoPartText THEN NoPartText
        ELSE parts[k].value]
\* Promise.allSettled: every part's own result.
ResultsOf(parts) == [k \in DOMAIN parts |-> parts[k].value]

\* The text processLargePDFWithSplitting returns for combinedText: with the
\* note when there is text, else ''.
SplitResult(combinedText) ==
    IF combinedText # <<>>
    THEN SplitString(combinedText,
                     NoteOf(FirstStrategy, Min(maxPartsFirstPass, FirstStrategy.partsNeeded)),
                     NumbersOf(FirstStrategy, Min(maxPartsFirstPass, FirstStrategy.partsNeeded)))
    ELSE EmptyString

\* Part k of the running pass settles with the value (how: "settled", or
\* "timeout" when its 2 minutes passed first, or "createTimeout" when the
\* minute of its creation passed first).  Promise.allSettled goes
\* on with the last part: after the first pass without any text the second
\* pass starts with the smaller strategy; else the function returns.
Settle(k, how, value) ==
    LET parts == [ThisPass.parts EXCEPT ![k] = PartAt(how, value)]
        combinedText == Combined(ResultsOf(parts), Len(parts))
    IN /\ partLog' = Logged(k, how, value)
       /\ IF ~Settled(parts)
          THEN /\ passes' = [passes EXCEPT ![Len(passes)].parts = parts]
               /\ UNCHANGED <<extractPc, extractResponse, extractCache>>
          ELSE IF Len(passes) = 1 /\ combinedText = <<>>
          THEN /\ passes' = Append([passes EXCEPT ![1].parts = parts],
                                   NewPass(calculateSplittingStrategy(extractReq.pageCount, TRUE),
                                           maxPartsSecondPass))
               /\ UNCHANGED <<extractPc, extractResponse, extractCache>>
          ELSE /\ passes' = [passes EXCEPT ![Len(passes)].parts = parts]
               /\ Finish(SplitResult(combinedText))

\* getPDFInfo settles: null (load failed, or 30 s passed) ends the request
\* with the empty document; else the first pass starts.
PdfInfoReturn ==
    /\ extractPc = "info"
    /\ \E failed \in BOOLEAN :
          IF failed
          THEN /\ Finish(EmptyString)
               /\ UNCHANGED passes
          ELSE /\ passes' = <<NewPass(calculateSplittingStrategy(extractReq.pageCount, FALSE),
                                      maxPartsFirstPass)>>
               /\ extractPc' = "parts"
               /\ UNCHANGED <<extractResponse, extractCache>>
    /\ UNCHANGED <<others, partLog, extractReq, invoked, extractions>>

\* createSinglePDFPart of part k settles: null gives '' for the part, else
\* processPDFPart starts tryAdobeExtract on the part.
PartCreateReturn(k) ==
    /\ extractPc = "parts"
    /\ k \in DOMAIN ThisPass.parts
    /\ ThisPass.parts[k].at = "create"
    /\ \E failed \in BOOLEAN :
          IF failed THEN Settle(k, "settled", NoPartText)
          ELSE /\ passes' = [passes EXCEPT ![Len(passes)].parts[k].at = "extract"]
               /\ UNCHANGED <<extractPc, extractResponse, extractCache, partLog>>
    /\ UNCHANGED <<others, extractReq, invoked, extractions>>

\* tryAdobeExtract of part k settles.
PartExtractReturn(k) ==
    /\ extractPc = "parts"
    /\ k \in DOMAIN ThisPass.parts
    /\ ThisPass.parts[k].at = "extract"
    /\ \E t \in TierTexts :
          IF HasText(t) THEN Settle(k, "settled", PartText(k, FALSE, t))
          ELSE /\ passes' = [passes EXCEPT ![Len(passes)].parts[k].at = "ocr"]
               /\ UNCHANGED <<extractPc, extractResponse, extractCache, partLog>>
    /\ UNCHANGED <<others, extractReq, invoked, extractions>>

\* tryAdobeOCR of part k settles; tryTextBasedExtraction runs on its buffer.
PartOCRReturn(k) ==
    /\ extractPc = "parts"
    /\ k \in DOMAIN ThisPass.parts
    /\ ThisPass.parts[k].at = "ocr"
    /\ \E len \in {0, 1}, ocrText \in TierTexts :
          IF len > 0 /\ HasText(ocrText) THEN Settle(k, "settled", PartText(k, TRUE, ocrText))
          ELSE Settle(k, "settled", NoPartText)
    /\ UNCHANGED <<others, extractReq, invoked, extractions>>

\* A part that is awaited beyond its 2 minutes, and its text used.
PartAwaited(k) ==
    /\ extractPc = "parts"
    /\ k \in DOMAIN ThisPass.parts
    /\ ThisPass.parts[k].at \in {"extract", "ocr"}
    /\ Settle(k, "timeout", PartText(k, FALSE, <<"a">>))
    /\ UNCHANGED <<others, extractReq, invoked, extractions>>

\* The 2 minutes of processPDFPart pass before the part's tiers settled: the
\* race rejects and the catch gives '' for the part.
PartTimeout(k) ==
    /\ extractPc = "parts"
    /\ k \in DOMAIN ThisPass.parts
    /\ ThisPass.parts[k].at \in {"extract", "ocr"}
    /\ Settle(k, "timeout", NoPartText)
    /\ UNCHANGED <<others, extractReq, invoked, extractions>>

\* The minute of createSinglePDFPart passes before createPDFSplit settled:
\* the race rejects, the catch gives null and processPDFPartLazy '' for the
\* part.
PartCreateTimeout(k) ==
    /\ extractPc = "parts"
    /\ k \in DOMAIN ThisPass.parts
    /\ ThisPass.parts[k].at = "create"
    /\ Settle(k, "createTimeout", NoPartText)
    /\ UNCHANGED <<others, extractReq, invoked, extractions>>

\* The text the tiers of a part give after its 2 minutes passed.
LateText(k) == PartText(k, FALSE, <<"a">>)
\* Was the event logged for part k of the pass?
HasEvent(pass, k, how) ==
    \E i \in DOMAIN partLog.events :
        /\ partLog.events[i].pass = pass
        /\ partLog.events[i].part = k
        /\ partLog.events[i].how = how
\* processPDFPartWithTimeout of a part whose 2 minutes had passed settles
\* with text while the split is still running: nothing cancels it, and
\* nothing awaits it any more.
PartLateReturn(pass, k) ==
    /\ extractPc = "parts"
    /\ HasEvent(pass, k, "timeout")
    /\ ~HasEvent(pass, k, "late")
    /\ partLog' = [partLog EXCEPT !.events = Append(@, PartEvent(pass, k, "late", LateText(k)))]
    /\ UNCHANGED <<others, extractCache, extractReq, extractPc, invoked, passes,
                   extractResponse, extractions>>

\* ---- the plan of a split
\* calculateSplittingStrategy is called with the input.
CallCalculateSplittingStrategy ==
    /\ input.fn = "calculateSplittingStrategy"
    /\ output = NoCall
    /\ output' = [fn |-> "calculateSplittingStrategy",
                  strategy |-> calculateSplittingStrategy(input.pageCount, input.forceSmaller),
                  ranges |-> <<>>]
    /\ UNCHANGED <<rest, input>>

\* createSinglePDFPart is called for the next part index of the strategy: the
\* range of part index k is ranges[k + 1].
CallCreateSinglePDFPart ==
    /\ output.fn = "calculateSplittingStrategy"
    /\ Len(output.ranges) < output.strategy.partsNeeded
    /\ output' = [output EXCEPT !.ranges =
                      Append(@, PageRange(Len(@), output.strategy, input.pageCount))]
    /\ UNCHANGED <<rest, input>>

\* ---- extractPDFText and the endpoint it calls
\* The requests extractPDFText sends: { pdfUrl } of a validated body, for a
\* document of any size.
IngestRequests ==
    {req \in ExtractRequests : req.variant = 2 /\ req.url = "valid" /\ req.pageCount = 150}

\* extractPDFText's fetch of /api/extract-text reaches the endpoint.
ExtractTextPost(r) ==
    /\ pc[r] = "extract"
    /\ extractPc = "idle"
    /\ \E req \in IngestRequests : ExtractReceive(req)

\* extractPDFText's fetch settles: it raised, or the endpoint's response is
\* not ok and extractPDFText throws "Extract-text API failed: <status> ...",
\* which POST's inner catch answers with status 500; or the text is returned:
\* processAndStorePDF throws on the empty text, else chunks it and issues the
\* first batch of getEmbeddingsOptimized(chunks, batchSize).
ExtractTextReturn(r) ==
    /\ pc[r] = "extract"
    /\ \/ /\ extractPc # "idle"
          /\ Fail(r, "fetch failed")
          /\ UNCHANGED <<extractedText, chunks, embI, embAcc, calls>>
       \/ /\ extractPc = "done"
          /\ extractResponse.status # 200
          /\ Fail(r, "Extract-text API failed")
          /\ UNCHANGED <<extractedText, chunks, embI, embAcc, calls>>
       \/ /\ extractPc = "done"
          /\ extractResponse.status = 200
          /\ ~Truthy(extractResponse.text)
          /\ extractedText' = [extractedText EXCEPT ![r] = EmptyText]
          /\ Fail(r, "Extracted PDF text is empty")
          /\ UNCHANGED <<chunks, embI, embAcc, calls>>
       \/ /\ extractPc = "done"
          /\ extractResponse.status = 200
          /\ Truthy(extractResponse.text)
          /\ \E text \in texts :
                /\ extractedText' = [extractedText EXCEPT ![r] = text]
                /\ chunks' = [chunks EXCEPT ![r] = chunkText(text, chunkSizeFor(text))]
                /\ embI' = [embI EXCEPT ![r] = 0]
                /\ embAcc' = [embAcc EXCEPT ![r] = <<>>]
                /\ pc' = [pc EXCEPT ![r] = "embedChunks"]
                /\ calls' = [calls EXCEPT ![r] = Append(@, "embedChunks")]
                /\ UNCHANGED response
    /\ UNCHANGED <<world, store, now, documents, questions, pdfExists, chunkEmbeddings,
                   createdAt, upI, questionEmbeddings, task, relevantChunks,
                   questionResults, hist, purgeVars>>

\* ------------------------------------------------------------ specification
\* The steps of the requests.
Next ==
    \/ \E r \in Requests : Receive(r)
    \/ \E r \in Requests : ExistsReturn(r)
    \/ \E r \in Requests : ExtractReturn(r)
    \/ \E r \in Requests : EmbedReturn(r)
    \/ \E r \in Requests : EmbedDelayDone(r)
    \/ \E r \in Requests : UpsertReturn(r)
    \/ \E r \in Requests, i \in 1..MaxQuestions : QueryReturn(r, i)
    \/ \E r \in Requests, i \in 1..MaxQuestions : SynthReturn(r, i)
    \/ \E r \in Requests : Respond(r)

\* The steps of the requests and of the purge.
NextPurge ==
    \/ Next
    \/ \E u \in Urls : PurgeStart(u)
    \/ PurgeQueryReturn
    \/ PurgeDeleteReturn

\* Concurrent requests.
Spec == Init /\ [][Next]_vars

\* One request alone.
SpecOne == InitOne /\ [][Next]_vars

\* Concurrent requests for a long document.
SpecLong == InitLong /\ [][Next]_vars

\* Concurrent requests and the purge.
SpecPurge == InitPurge /\ [][NextPurge]_vars

\* The calls of the extraction cache.
NextCache ==
    \/ \E url \in CacheUrls, text \in texts : SetCachedText(url, text)
    \/ \E url \in CacheUrls : GetCachedText(url)
    \/ Tick

\* The extraction cache alone.
SpecCache == InitCache /\ [][NextCache]_vars

\* The calls of chunkText.
NextChunk ==
    \/ CallChunkText
    \/ CallChunkTextInMemory

\* chunkText alone.
SpecChunk == InitChunk /\ [][NextChunk]_vars

\* The steps of a request, and the calls of findRelevantChunks.
NextRank ==
    \/ Next
    \/ CallFindRelevantChunks
    \/ CallFindRelevantChunksSequential

\* Retrieval: the persisted-index handler, and the in-memory retriever alone.
SpecRank == InitRank /\ [][NextRank]_vars

\* The steps of a request, and of the embedder calls.
NextEmbed ==
    \/ Next
    \/ CallGetEmbeddingsOptimized
    \/ PostEmbeddings
    \/ \E w \in {"call", "chunks", "questions"} : EmbeddingsCreateReturn(w)
    \/ \E w \in {"call", "chunks", "questions"} : EmbeddingsDelayDone(w)

\* Embedding: the persisted-index handler, getEmbeddingsOptimized alone, and
\* the in-memory handler's step 3.
SpecEmbed == InitEmbed /\ [][NextEmbed]_vars

\* The steps of the extraction endpoint.
NextExtract ==
    \/ \E req \in ExtractRequests : ExtractReceive(req)
    \/ ExtractFetchReturn
    \/ ExtractFetchAborted
    \/ ExtractBodyReturn
    \/ AdobeExtractReturn
    \/ AdobeOCRReturn
    \/ ParseReturn
    \/ ParseTimeout
    \/ PdfInfoReturn
    \/ \E k \in 1..maxPartsSecondPass : PartCreateReturn(k)
    \/ \E k \in 1..maxPartsSecondPass : PartExtractReturn(k)
    \/ \E k \in 1..maxPartsSecondPass : PartOCRReturn(k)
    \/ \E k \in 1..maxPartsSecondPass : PartTimeout(k)

\* The extraction endpoint alone.
SpecExtract == InitExtract /\ [][NextExtract]_vars

\* The requests of the second variant for a document above CHUNK_SIZE_LIMIT,
\* of two parts in the first pass and three in the second.
SplitRequests ==
    [variant : {2}, url : {"valid"}, size : {62914560}, pageCount : {300}]

\* The steps of the split, with the timer of a part's creation and the late
\* return of an abandoned part told apart.
NextSplit ==
    \/ \E req \in SplitRequests : ExtractReceive(req)
    \/ ExtractFetchReturn
    \/ ExtractBodyReturn
    \/ PdfInfoReturn
    \/ \E k \in 1..maxPartsFirstPass : PartCreateReturn(k)
    \/ \E k \in 1..maxPartsFirstPass : PartCreateTimeout(k)
    \/ \E k \in 1..maxPartsFirstPass : PartExtractReturn(k)
    \/ \E k \in 1..maxPartsFirstPass : PartOCRReturn(k)
    \/ \E k \in 1..maxPartsFirstPass : PartTimeout(k)
    \/ \E pass \in 1..2, k \in 1..maxPartsFirstPass : PartLateReturn(pass, k)

\* The split of a large document, with the order of its parts' settlements.
SpecSplit == InitSplit /\ [][NextSplit]_vars

\* Another document, cached by an earlier request when the clock stood at 0.
OtherUrl == [doc |-> 2, se |-> NoSe]
CachedBefore ==
    [u \in {OtherUrl} |->
        [text |-> StringOf(<<"a">>), expiresAt |-> computeTTL(OtherUrl, 0)]]

\* The extraction endpoint with the text of another document in its cache.
InitEvict ==
    /\ clients = {}
    /\ lists = {<<1>>}
    /\ texts = ShortTexts
    /\ store = EmptyStore
    /\ now = 0
    /\ StartRequests
    /\ cacheUrls = {}
    /\ extractCache = CachedBefore
    /\ clock = 0
    /\ cached = [url |-> [doc |-> 0, se |-> NoSe], text |-> NoText]
    /\ lastSet = EmptyCache
    /\ sets = 0
    /\ ticks = 0
    /\ NoHelper

\* Requests for a document of one page range, small, above CHUNK_SIZE_LIMIT
\* or above both size limits.
EvictRequests ==
    [variant : {1, 2}, url : {"missing", "invalid", "valid"},
     size : {1048576, 62914560, 125829120}, pageCount : {150}]

\* The steps of the extraction endpoint while time passes.
NextEvict ==
    \/ \E req \in EvictRequests : ExtractReceive(req)
    \/ ExtractFetchReturn
    \/ ExtractFetchAborted
    \/ ExtractBodyReturn
    \/ AdobeExtractReturn
    \/ AdobeOCRReturn
    \/ ParseReturn
    \/ ParseTimeout
    \/ PdfInfoReturn
    \/ \E k \in 1..2 : PartCreateReturn(k)
    \/ \E k \in 1..2 : PartExtractReturn(k)
    \/ \E k \in 1..2 : PartOCRReturn(k)
    \/ \E k \in 1..2 : PartTimeout(k)
    \/ Tick

\* The extraction endpoint and its cache over the days.
SpecEvict == InitEvict /\ [][NextEvict]_vars

\* What the timers of the endpoint guarantee.  The AbortController's timer
\* ends a fetch that does not settle; parseWithTimeout's timer ends the
\* parsing; getPDFInfo and createSinglePDFPart race a local computation
\* against their timers, and processPDFPart races a part's remote calls
\* against its timer.  Nothing guarantees that response.arrayBuffer() or the
\* remote calls of tryAdobeExtract and tryAdobeOCR on the whole document
\* settle: the code sets no timer for them.
ExtractDeadlines ==
    /\ WF_vars(ExtractFetchAborted)
    /\ WF_vars(ParseTimeout)
    /\ WF_vars(PdfInfoReturn)
    /\ \A k \in 1..maxPartsSecondPass :
           /\ WF_vars(PartCreateReturn(k))
           /\ WF_vars(PartTimeout(k))

\* The extraction endpoint with its timers.
SpecExtractFair == InitExtract /\ [][NextExtract]_vars /\ ExtractDeadlines

\* The steps of a request that arrives with any body.
NextValidate ==
    \/ \E r \in Requests : ReceiveBody(r)
    \/ \E r \in Requests : ExistsReturn(r)
    \/ \E r \in Requests : ExtractReturn(r)
    \/ \E r \in Requests : EmbedReturn(r)
    \/ \E r \in Requests : EmbedDelayDone(r)
    \/ \E r \in Requests : UpsertReturn(r)
    \/ \E r \in Requests, i \in 1..MaxQuestions : QueryReturn(r, i)
    \/ \E r \in Requests, i \in 1..MaxQuestions : SynthReturn(r, i)
    \/ \E r \in Requests : Respond(r)

\* One request from its body on.
SpecValidate == InitValidate /\ [][NextValidate]_vars

\* The steps of a request whose extraction the endpoint serves.
NextIngest ==
    \/ \E r \in Requests : Receive(r)
    \/ \E r \in Requests : ExistsReturn(r)
    \/ \E r \in Requests : ExtractTextPost(r)
    \/ ExtractFetchReturn
    \/ ExtractFetchAborted
    \/ ExtractBodyReturn
    \/ AdobeExtractReturn
    \/ AdobeOCRReturn
    \/ PdfInfoReturn
    \/ \E k \in 1..maxPartsSecondPass : PartCreateReturn(k)
    \/ \E k \in 1..maxPartsSecondPass : PartExtractReturn(k)
    \/ \E k \in 1..maxPartsSecondPass : PartOCRReturn(k)
    \/ \E k \in 1..maxPartsSecondPass : PartTimeout(k)
    \/ \E r \in Requests : ExtractTextReturn(r)
    \/ \E r \in Requests : EmbedReturn(r)
    \/ \E r \in Requests : EmbedDelayDone(r)
    \/ \E r \in Requests : UpsertReturn(r)
    \/ \E r \in Requests, i \in 1..MaxQuestions : QueryReturn(r, i)
    \/ \E r \in Requests, i \in 1..MaxQuestions : SynthReturn(r, i)
    \/ \E r \in Requests : Respond(r)

\* One request and the extraction endpoint it calls.
SpecIngest == InitIngest /\ [][NextIngest]_vars

\* The calls that plan a split.
NextPlan ==
    \/ CallCalculateSplittingStrategy
    \/ CallCreateSinglePDFPart

\* The plan of a split alone.
SpecPlan == InitPlan /\ [][NextPlan]_vars

\* ---- the temporary files of tryAdobeExtract and tryAdobeOCR
\* NumAttempts attempts run concurrently, each a call of tryAdobeExtract or
\* of tryAdobeOCR with a buffer of its own; Date.now() moves on at most
\* MaxMs milliseconds while they run.
NumAttempts == 2
MaxMs == 2
Attempts == 1..NumAttempts

\* path.join(os.tmpdir(), `adobe_extract_${Date.now()}.pdf`), and the same
\* with adobe_ocr_ for tryAdobeOCR.
TempPath(tier, ms) == [prefix |-> tier, ms |-> ms]
NoPath == TempPath("", 0)
\* The path attempt a of the tier takes at the time ms.
tempPdfPath(tier, ms, a) == TempPath(tier, ms)

\* The files of os.tmpdir(): path -> the attempt whose bytes the file holds.
NoFiles == [f \in {} |-> 0]
WriteFile(files, f, a) == [g \in DOMAIN files \cup {f} |-> IF g = f THEN a ELSE files[g]]
Unlink(files, f) == [g \in DOMAIN files \ {f} |-> files[g]]

\* An attempt: where it stands, its path, and whose bytes it uploaded (0:
\* none yet).
Attempt(at, f, uploaded) == [at |-> at, tempPdfPath |-> f, uploaded |-> uploaded]

InitTemp ==
    /\ clients = {}
    /\ lists = {<<1>>}
    /\ texts = ShortTexts
    /\ store = EmptyStore
    /\ now = 0
    /\ StartRequests
    /\ cacheUrls = {}
    /\ StartCache
    /\ input \in [fn : {"adobe"}, tiers : [Attempts -> {"extract", "ocr"}]]
    /\ output = NoCall

\* The attempts are called: each is at its dynamic import.
CallAdobe ==
    /\ input.fn = "adobe"
    /\ output = NoCall
    /\ output' = [fn |-> "adobe", ms |-> 0, files |-> NoFiles,
                  attempts |-> [a \in Attempts |-> Attempt("import", NoPath, 0)]]
    /\ UNCHANGED <<rest, input>>

\* A millisecond passes.
TempTick ==
    /\ output.fn = "adobe"
    /\ output.ms < MaxMs
    /\ output' = [output EXCEPT !.ms = @ + 1]
    /\ UNCHANGED <<rest, input>>

\* Attempt a goes on after its import: it takes its path from Date.now(),
\* writes its buffer there with writeFileSync, creates the read stream (which
\* opens the file when it is read) and awaits the upload.
TempWrite(a) ==
    /\ output.fn = "adobe"
    /\ output.attempts[a].at = "import"
    /\ LET f == tempPdfPath(input.tiers[a], output.ms, a)
       IN output' = [output EXCEPT !.files = WriteFile(@, f, a),
                                   !.attempts[a] = Attempt("upload", f, 0)]
    /\ UNCHANGED <<rest, input>>

\* The upload of attempt a reads the file at its path and settles: the bytes
\* the file holds now are uploaded; a file that is gone, or a service that
\* raises, ends the attempt in its catch, which removes nothing.
TempUpload(a) ==
    /\ output.fn = "adobe"
    /\ output.attempts[a].at = "upload"
    /\ \E raised \in BOOLEAN :
          LET f == output.attempts[a].tempPdfPath
          IN IF raised \/ f \notin DOMAIN output.files
             THEN output' = [output EXCEPT !.attempts[a].at = "failed"]
             ELSE output' = [output EXCEPT !.attempts[a] = Attempt("job", f, output.files[f])]
    /\ UNCHANGED <<rest, input>>

\* The job of attempt a settles and its result is read: unlinkSync removes
\* the file at the attempt's path (an error of it is ignored); a job that
\* raises ends the attempt in its catch, which removes nothing.
TempCleanup(a) ==
    /\ output.fn = "adobe"
    /\ output.attempts[a].at = "job"
    /\ \E raised \in BOOLEAN :
          IF raised
          THEN output' = [output EXCEPT !.attempts[a].at = "failed"]
          ELSE output' = [output EXCEPT !.files = Unlink(@, output.attempts[a].tempPdfPath),
                                        !.attempts[a].at = "done"]
    /\ UNCHANGED <<rest, input>>

NextTemp ==
    \/ CallAdobe
    \/ TempTick
    \/ \E a \in Attempts : TempWrite(a)
    \/ \E a \in Attempts : TempUpload(a)
    \/ \E a \in Attempts : TempCleanup(a)

\* Concurrent attempts of the remote tiers and their temporary files.
SpecTemp == InitTemp /\ [][NextTemp]_vars

\* The steps of the in-memory handler.
NextInMemory ==
    \/ PostChunk
    \/ PostEmbeddingsReturn
    \/ \E i \in 1..MaxQuestions : AskOpenAIReturn(i)

\* The in-memory handler from the extracted text on.
SpecInMemory == InitInMemory /\ [][NextInMemory]_vars

\* ------------------------------------------------------------- properties
Responded(r) == pc[r] = "done"
Succeeded(r) == Responded(r) /\ response[r].status = 200
Called(r, call) == \E k \in DOMAIN calls[r] : calls[r][k] = call
\* The request ran the ingestion: extraction, chunk embedding, upsert.
Ingested(r) == Called(r, "extract") /\ Called(r, "embedChunks") /\ Called(r, "upsert")

\* C1: a successful request with questions q[1..n] answers with exactly n
\* answers, and answer i is the one produced for q[i] (the result of task i,
\* made from question i and the chunks retrieved for it), in whatever order the
\* question tasks completed.
C1_AnswersInQuestionOrder ==
    \A r \in Requests :
        Succeeded(r) =>
            /\ Len(response[r].answers) = Len(questions[r])
            /\ \A i \in DOMAIN questions[r] :
                  /\ response[r].answers[i] = questionResults[r][i].answer
                  /\ questionResults[r][i].index = i - 1
                  /\ response[r].answers[i].q = questions[r][i]
                  /\ response[r].answers[i].kind = "answer" =>
                        response[r].answers[i].context.parts = relevantChunks[r][i]

\* C1's case: two questions answered, the second task having finished first.
C1_Witness ==
    \E r \in Requests :
        /\ Succeeded(r)
        /\ Len(questions[r]) = 2
        /\ hist[r].order = <<2, 1>>
        /\ response[r].answers[1].kind = "answer"
        /\ response[r].answers[2].kind = "answer"

\* The questions of request r whose retrieval or whose synthesis raised.
Raised(r) == hist[r].queryRaised \cup hist[r].synthRaised

C3_LaterRequestNeverIngests ==
    \A r \in Requests :
        hist[r].later => ~Called(r, "extract") /\ ~Called(r, "embedChunks")

\* C3 amended: a request that arrives after a request for the same URL has
\* ingested the document and answered, whose existence query does not raise,
\* while no purge has been started, finds the document and calls only the
\* existence check, the question embedding, the retrieval and the synthesis.
C3_LaterRequestIngestsOnlyOnCheckError ==
    \A r \in Requests :
        (/\ hist[r].later
         /\ pc[r] \notin {"idle", "exists"}
         /\ ~hist[r].existsRaised
         /\ purges = 0) =>
            /\ pdfExists[r]
            /\ \A k \in DOMAIN calls[r] :
                  calls[r][k] \in {"exists", "existsDone", "embedQuestions", "query", "synth"}

\* C3's case: a later request whose existence query returned has answered.
C3_Witness ==
    \E r \in Requests :
        /\ hist[r].later
        /\ ~hist[r].existsRaised
        /\ purges = 0
        /\ Succeeded(r)
        /\ Called(r, "synth")

\* C4: in every request the existence check has returned before any call of
\* the embedding service is issued, and chunks are embedded only when the check
\* reported the document absent.
C4_CheckBeforeEmbedding ==
    \A r \in Requests :
        \A k \in DOMAIN calls[r] :
            calls[r][k] \in {"embedChunks", "embedQuestions"} =>
                /\ \E j \in 1..(k - 1) : calls[r][j] = "existsDone"
                /\ calls[r][k] = "embedChunks" => ~pdfExists[r]

\* C4's case: one request has embedded chunks (the document was absent) while
\* another has embedded only its questions (the document was present).
C4_Witness ==
    \E r, o \in Requests :
        /\ Called(r, "embedChunks") /\ ~pdfExists[r]
        /\ Called(o, "embedQuestions") /\ pdfExists[o]

\* The records of document u in the index.
RecordsOf(u) == {id \in DOMAIN store : store[id].metadata.pdfUrl = u}
\* The record that request r upserts for its chunk k (1-based).
Written(r, k) == [values |-> vectors(r)[k].values, metadata |-> vectors(r)[k].metadata]
\* The index holds, for document u, exactly the records request r upserted.
HoldsExactly(u, r) ==
    /\ RecordsOf(u) = {RecordId(u, k - 1) : k \in DOMAIN chunks[r]}
    /\ \A k \in DOMAIN chunks[r] : store[RecordId(u, k - 1)] = Written(r, k)

\* C5 as stated: when two requests have both ingested the same new document
\* and both have answered, the records of the document are exactly the records
\* one of the two wrote, never a mixture.
C5_LastWriteWinsWhole ==
    \A a, b \in Requests :
        (/\ a # b
         /\ documents[a] = documents[b]
         /\ Succeeded(a) /\ Ingested(a)
         /\ Succeeded(b) /\ Ingested(b)) =>
            HoldsExactly(documents[a], a) \/ HoldsExactly(documents[a], b)

\* C6: when the query of the existence check raises, checkPDFExists returns
\* false, no error response comes of it, and the request goes on with the
\* ingestion: its next call is the extraction, and when it answers it has
\* extracted, embedded the chunks and upserted.
C6_CheckErrorMeansAbsent ==
    \A r \in Requests :
        hist[r].existsRaised =>
            /\ ~pdfExists[r]
            /\ SubSeq(calls[r], 1, 3) = <<"exists", "existsDone", "extract">>
            /\ Succeeded(r) => Ingested(r)
            /\ (Responded(r) /\ ~Succeeded(r)) => Len(calls[r]) >= 3

\* C6's case: the document was stored, the existence query raised all the
\* same, and the request ingested it again and answered.
C6_Witness ==
    \E r \in Requests :
        /\ hist[r].existsRaised
        /\ hist[r].later
        /\ Succeeded(r)
        /\ Ingested(r)

\* How many of the calls of request r are upserts.
RECURSIVE CountUpserts(_)
CountUpserts(cs) ==
    IF cs = <<>> THEN 0
    ELSE (IF Head(cs) = "upsert" THEN 1 ELSE 0) + CountUpserts(Tail(cs))

\* C7: when a batch of the upsert raises, no later batch is sent (the failed
\* upsert is the last call of the request), storePDFChunks fails, and the
\* request answers with an error and no answers: no question is embedded,
\* retrieved or synthesized.
C7_UpsertFailureAborts ==
    \A r \in Requests :
        hist[r].upsertRaised =>
            /\ Responded(r)
            /\ response[r].status = 500
            /\ response[r].answers = <<>>
            /\ calls[r][Len(calls[r])] = "upsert"
            /\ CountUpserts(calls[r]) = upI[r] \div upsertBatchSize + 1
            /\ questionEmbeddings[r] = <<>>
            /\ task[r] = <<>>

\* C7's case: the first of two batches raised.
C7_Witness ==
    \E r \in Requests :
        /\ hist[r].upsertRaised
        /\ upI[r] = 0
        /\ Len(chunks[r]) > upsertBatchSize
        /\ response[r].status = 500

\* storePDFChunks of request r has returned or thrown.
StoreEnded(r) == Called(r, "upsert") /\ pc[r] # "upsert"

\* C8 as stated: after storePDFChunks has returned the index holds every record
\* of the call, after it has failed the index holds none of them.
C8_UpsertAllOrNothing ==
    \A r \in Requests :
        StoreEnded(r) =>
            IF hist[r].upsertRaised
            THEN \A k \in DOMAIN chunks[r] :
                    ~(/\ RecordId(documents[r], k - 1) \in DOMAIN store
                      /\ store[RecordId(documents[r], k - 1)] = Written(r, k))
            ELSE \A k \in DOMAIN chunks[r] :
                    /\ RecordId(documents[r], k - 1) \in DOMAIN store
                    /\ store[RecordId(documents[r], k - 1)] = Written(r, k)

\* The step deletes record id by the purge's deleteMany.
PurgeDeletes(id) == purgePc = "delete" /\ purgePc' = "idle" /\ id \in chunkIds

\* C9 as stated: a record, once written, keeps its vector and its metadata,
\* and it disappears only by a purge.
C9_RecordsNeverMutated ==
    [][\A id \in DOMAIN store :
          IF id \in DOMAIN store'
          THEN store'[id] = store[id]
          ELSE PurgeDeletes(id)]_vars

\* C9 amended: a record keeps its id, its pdfUrl and its chunkIndex; its
\* vector, text, totalChunks and createdAt change only when a request that
\* ingests the same document upserts the id again, and then to what that
\* request wrote; a record disappears only by a purge.
C9_RecordsKeepIdentity ==
    [][\A id \in DOMAIN store :
          IF id \in DOMAIN store'
          THEN /\ store'[id].metadata.pdfUrl = store[id].metadata.pdfUrl
               /\ store'[id].metadata.chunkIndex = store[id].metadata.chunkIndex
               /\ id = RecordId(store'[id].metadata.pdfUrl, store'[id].metadata.chunkIndex)
               /\ store'[id] # store[id] =>
                     \E r \in Requests :
                        /\ pc[r] = "upsert"
                        /\ documents[r] = store[id].metadata.pdfUrl
                        /\ ~pdfExists[r]
                        /\ store'[id] = Written(r, store[id].metadata.chunkIndex + 1)
          ELSE PurgeDeletes(id)]_vars

\* C9's case: both requests have ingested the same document, and a record the
\* first one wrote now carries what the second one wrote.
C9_Witness ==
    \E a, b \in Requests :
        /\ a # b
        /\ documents[a] = documents[b]
        /\ Succeeded(a) /\ Ingested(a)
        /\ Succeeded(b) /\ Ingested(b)
        /\ createdAt[a] < createdAt[b]
        /\ RecordId(documents[a], 0) \in DOMAIN store
        /\ store[RecordId(documents[a], 0)] = Written(b, 1)
        /\ store[RecordId(documents[a], 0)] # Written(a, 1)

\* C10 as stated: when storePDFChunks(id, chunks, embeddings) returns, the
\* index holds for every i below the number n of chunks the record of id
\* "<id>_chunk_<i>" with vector embeddings[i], text chunks[i], chunkIndex i and
\* totalChunks n.
C10_StoredAsPassed ==
    [][\A r \in Requests :
          (pc[r] = "upsert" /\ pc'[r] = "embedQuestions") =>
              \A k \in DOMAIN chunks[r] :
                  LET id == RecordId(documents[r], k - 1)
                  IN /\ id \in DOMAIN store'
                     /\ store'[id].values = chunkEmbeddings[r][k]
                     /\ store'[id].metadata.text = chunks[r][k]
                     /\ store'[id].metadata.chunkIndex = k - 1
                     /\ store'[id].metadata.totalChunks = Len(chunks[r])]_vars

\* C11 as stated: when the purge of document u has returned without an error,
\* the index holds no record of u, however many chunks u had, and the records
\* of the other documents are as they were.
C11_PurgeRemovesEveryRecord ==
    [][(purgePc = "delete" /\ purgePc' = "idle" /\ store' # store) =>
          /\ \A id \in DOMAIN store' : store'[id].metadata.pdfUrl # purgeUrl
          /\ \A id \in DOMAIN store :
                store[id].metadata.pdfUrl # purgeUrl =>
                    id \in DOMAIN store' /\ store'[id] = store[id]]_vars

\* The step is a call of getCachedText(u) that is seen: it changes what was
\* returned last or the cache.
GetStep(u) ==
    /\ sets' = sets
    /\ cached'.url = u
    /\ cached' # cached \/ extractCache' # extractCache

\* C12: a get for a URL at a time not later than the expiry the last set of the
\* URL computed returns the text that was set; a get after that expiry (or
\* with no set before it) returns absent and leaves no entry for the URL, so
\* that later gets are absent until the next set.  The entries of the other
\* URLs stay as they are.
C12_GetUntilExpiry ==
    [][\A u \in CacheUrls :
          GetStep(u) =>
              /\ IF u \in DOMAIN lastSet /\ clock <= lastSet[u].expiresAt
                 THEN /\ cached'.text = lastSet[u].text
                      /\ u \in DOMAIN extractCache'
                      /\ extractCache'[u] = extractCache[u]
                 ELSE /\ cached'.text = NoText
                      /\ u \notin DOMAIN extractCache'
              /\ \A v \in CacheUrls \ {u} :
                    /\ v \in DOMAIN extractCache' <=> v \in DOMAIN extractCache
                    /\ v \in DOMAIN extractCache => extractCache'[v] = extractCache[v]]_vars

\* C12's case: the last get found the entry of its URL expired and removed it,
\* and the entry of another URL is still there.
C12_Witness ==
    /\ cached.url \in DOMAIN lastSet
    /\ cached.text = NoText
    /\ clock > lastSet[cached.url].expiresAt
    /\ cached.url \notin DOMAIN extractCache
    /\ DOMAIN extractCache # {}

\* C13: the TTL that the last set of a URL computed at time `at` is 24 hours
\* when the URL has no `se` parameter that parses as a date; for the date E
\* it is 0 when E is not after `at`, E - at up to 7 days, and 7 days beyond
\* that; two hours when E is two hours after `at`.
C13_TtlOfSignedExpiry ==
    \A u \in DOMAIN lastSet :
        LET ttl == lastSet[u].ttlMs
            ahead == u.se.day * 86400000 + u.se.hour * 3600000 - lastSet[u].at
        IN IF u.se.kind # "date" THEN ttl = 86400000
           ELSE /\ ahead <= 0 => ttl = 0
                /\ (0 < ahead /\ ahead <= 604800000) => ttl = ahead
                /\ ahead > 604800000 => ttl = 604800000
                /\ ahead = 7200000 => ttl = 7200000

\* C13's case: a text was set for a URL whose expiry is two hours ahead, after
\* the clock had moved.
C13_Witness ==
    \E u \in DOMAIN lastSet :
        /\ u.se.kind = "date"
        /\ lastSet[u].at > 0
        /\ u.se.day * 86400000 + u.se.hour * 3600000 - lastSet[u].at = 7200000
        /\ lastSet[u].ttlMs = 7200000

\* The words of a string: its pieces that are not empty.
Words(str) == SelectSeq(SplitSpaces(str), NonEmpty)
\* The words of the chunks, chunk after chunk.
RECURSIVE Rejoined(_)
Rejoined(cs) == IF cs = <<>> THEN <<>> ELSE Words(Head(cs)) \o Rejoined(Tail(cs))
\* chunkText was called alone and returned chunks.
ChunkTextReturned == output.fn = "chunkText" /\ output.result.threw = ""

\* C14: for a text with at least one word and a positive window, the words of
\* the chunks chunkText returns, taken chunk after chunk, are the words of the
\* text: none lost, none twice, none out of place.
C14_ChunksRejoinToWords ==
    (ChunkTextReturned /\ Words(input.text) # <<>>) =>
        Rejoined(output.result.chunks) = Words(input.text)

\* C14's case: three words in windows of two, so a full chunk and a rest.
C14_Witness ==
    /\ ChunkTextReturned
    /\ Len(Words(input.text)) = 3
    /\ input.maxWords = 2
    /\ Len(output.result.chunks) = 2

\* C15 as stated: for a text of w >= 1 words and a window n >= 1 chunkText
\* returns ceil(w / n) chunks, every chunk but the last has n words and the
\* last has between 1 and n.
C15_ChunkCountAndSizes ==
    (ChunkTextReturned /\ Words(input.text) # <<>>) =>
        LET w == Len(Words(input.text))
            n == input.maxWords
            cs == output.result.chunks
        IN /\ Len(cs) = (w + n - 1) \div n
           /\ \A k \in 1..(Len(cs) - 1) : Len(Words(cs[k])) = n
           /\ Len(cs) > 0 => (1 <= Len(Words(cs[Len(cs)])) /\ Len(Words(cs[Len(cs)])) <= n)

\* C16: chunkText throws, and so returns no chunk, when the text is the empty
\* string or maxWords is 0 or less.
C16_ChunkTextValidates ==
    (output.fn = "chunkText" /\ (input.text = <<>> \/ input.maxWords <= 0)) =>
        /\ output.result.threw # ""
        /\ output.result.chunks = <<>>

\* C16's case: chunkText of run/route.ts has thrown for the empty string and a
\* positive window.
C16_Witness ==
    /\ output.fn = "chunkText"
    /\ output.of = "run"
    /\ input.text = <<>>
    /\ input.maxWords > 0
    /\ output.result.threw # ""

\* The scores of a result are non-increasing from first to last.
NonIncreasing(scores) == \A j \in 1..(Len(scores) - 1) : scores[j] >= scores[j + 1]

\* The step is the return of getTopKChunks to the task of question i of r.
RetrievedByAdapter(r, i) ==
    /\ i \in DOMAIN task[r]
    /\ task[r][i] = "query"
    /\ task'[r][i] = "synth"

\* What the adapter returned in that step has at most min(topK, the number of
\* records of the document) chunks, in non-increasing order of their score.
AdapterRanked(r, i) ==
    LET rc == relevantChunks'[r][i]
        q == questionEmbeddings[r][i]
    IN /\ Len(rc) <= Min(topK, Cardinality(RecordsOf(documents[r])))
       /\ NonIncreasing([j \in DOMAIN rc |-> Score(q, Embedding(rc[j]))])

\* findRelevantChunks was called alone and returned out.
InMemoryReturned(out) == out.fn = "findRelevantChunks" /\ out.result.threw = ""
\* The score of candidate i of the input for the query of the input.
ScoreOf(i) == cosineSimilarity(input.query, input.docs[i])
\* The result has at most limit chunks, in non-increasing order of score.
InMemoryRanked(out, limit) ==
    /\ Len(out.result.chunks) <= limit
    /\ NonIncreasing([j \in DOMAIN out.result.chunks |-> ScoreOf(out.result.chunks[j])])

\* C17 as stated: every retrieval result has at most min(k, candidateCount)
\* entries, in non-increasing order of score, for the in-memory ranking and
\* for the adapter, whatever order the index returns its matches in.
C17_AtMostKAndRanked ==
    [][/\ \A r \in Requests, i \in 1..MaxQuestions :
             RetrievedByAdapter(r, i) => AdapterRanked(r, i)
       /\ InMemoryReturned(output') =>
             InMemoryRanked(output', Min(input.k, Len(input.docs)))]_vars

\* C17 amended: every retrieval result has at most candidateCount entries, and
\* at most k when k is 1 or more, in non-increasing order of score, for the
\* in-memory ranking and for the adapter.
C17_AtMostCountAndRanked ==
    [][/\ \A r \in Requests, i \in 1..MaxQuestions :
             RetrievedByAdapter(r, i) => AdapterRanked(r, i)
       /\ InMemoryReturned(output') =>
             InMemoryRanked(output', IF input.k >= 1
                                     THEN Min(input.k, Len(input.docs))
                                     ELSE Len(input.docs))]_vars

\* C17's case: two of three candidates were asked for, and the better ones
\* stood behind a worse one.
C17_Witness ==
    /\ InMemoryReturned(output)
    /\ input.k = 2
    /\ Len(input.docs) = 3
    /\ ScoreOf(1) < ScoreOf(2)
    /\ ScoreOf(2) < ScoreOf(3)
    /\ output.result.chunks = <<3, 2>>

\* The k of the input is above the number of candidates, or 0 or less.
OutOfRange == input.k > Len(input.docs) \/ input.k <= 0

DefaultOf(out) == IF out.of = "parallel" THEN 2 ELSE 3

Runs == IF output.fn \in {"getEmbeddings", "POST"} THEN Range(output.runs) ELSE {}
\* The vectors are the embeddings of the texts, one each, in their order.
Aligned(embs, txts) ==
    /\ Len(embs) = Len(txts)
    /\ \A i \in DOMAIN txts : embs[i] = Embedding(txts[i])

\* C19: for every sequence of m texts and every batch size, when the service
\* answers every batch with one vector per input in input order, the embedder
\* returns exactly m vectors and vector i is the embedding of text i: for the
\* embedder called alone, for both calls of the in-memory handler, and for the
\* chunk and question embeddings of the persisted-index handler.
C19_EmbeddingsAligned ==
    /\ \A run \in Runs : run.at = "returned" => Aligned(run.embeddings, run.texts)
    /\ \A r \in Requests :
          /\ chunkEmbeddings[r] # <<>> => Aligned(chunkEmbeddings[r], chunks[r])
          /\ pc[r] = "questions" => Aligned(questionEmbeddings[r], questions[r])

\* C19's case: four texts in batches of three, the last text in a batch of
\* its own, and the embedder returned.
C19_Witness ==
    /\ output.fn = "getEmbeddings"
    /\ output.runs["call"].at = "returned"
    /\ output.runs["call"].batchSize = 3
    /\ output.runs["call"].requested = <<0, 3>>
    /\ output.runs["call"].texts = <<1, 2, 1, 2>>

\* C20: when the embedding service fails on a batch, the embedder call throws
\* (it returns no vectors, not even those of the batches before), that call
\* requests no batch afterwards, and the request that awaited it answers once,
\* with an error and no answers: status 500 and nothing after the response.
C20_EmbeddingFailureFailsAll ==
    [][/\ \A run \in Runs :
             run.raised => /\ run.at = "threw"
                           /\ run.threw = "Failed to generate embeddings"
                           /\ run \in Range(output'.runs)
       /\ (output.fn = "POST" /\ \E run \in Runs : run.raised) =>
             /\ output.response = EmbeddingsFailed
             /\ output'.response = output.response
       /\ \A r \in Requests :
             /\ (pc[r] \in {"embedChunks", "embedQuestions"} /\ pc'[r] = "done") =>
                   /\ response'[r].status = 500
                   /\ response'[r].error = "Failed to generate embeddings"
                   /\ response'[r].answers = <<>>
             /\ Responded(r) => /\ calls'[r] = calls[r]
                                /\ response'[r] = response[r]
                                /\ pc'[r] = "done"]_vars

\* C20's case: the second batch of the chunks failed in the in-memory handler,
\* the ten vectors of the first batch are dropped and the handler answered 500.
C20_Witness ==
    /\ output.fn = "POST"
    /\ output.runs["chunks"].raised
    /\ output.runs["chunks"].requested = <<0, 10>>
    /\ Len(output.runs["chunks"].embeddings) = 10
    /\ output.response = EmbeddingsFailed

\* The extraction endpoint answered with 200.
Extracted == extractPc = "done" /\ extractResponse.status = 200
\* No tier that was invoked, and no part of a pass, gave text.
NothingProduced ==
    /\ \A k \in DOMAIN invoked : ~HasText(invoked[k].chars)
    /\ \A p \in DOMAIN passes : \A k \in DOMAIN passes[p].parts :
          passes[p].parts[k].value = NoPartText

\* C21: every 200 response of the extraction endpoint (both variants) has a
\* string as its text; when the text is the empty string, no tier that was
\* attempted had produced text, and the response carries a warning.
C21_TextOrWarning ==
    Extracted =>
        /\ extractResponse.text.type = "string"
        /\ extractResponse.text = EmptyString =>
              /\ NothingProduced
              /\ extractResponse.warning # ""

\* C21's case: Adobe Extract and Adobe OCR were tried, nothing came of them,
\* and the response is the empty text with a warning.
C21_Witness ==
    /\ Extracted
    /\ extractResponse.text = EmptyString
    /\ extractResponse.warning # ""
    /\ Len(invoked) >= 2

\* The body of the request is one the validation has to reject: documents
\* missing, questions missing, not an array or empty, or documents not an
\* http or https URL.
MustReject(body) ==
    \/ ~JsTruthy(body.documents)
    \/ ~JsTruthy(body.questions)
    \/ ~IsArray(body.questions)
    \/ Len(body.questions.items) = 0
    \/ ~isValidUrl(body.documents)

\* C22: a Q&A request whose documents is missing, whose questions is missing,
\* not an array or empty, or whose documents is not a URL of scheme http or
\* https, makes no call to a collaborator and is answered with status 400.
C22_InvalidBodyRejectedBeforeAnyCall ==
    \A r \in clients :
        MustReject(input) =>
            /\ calls[r] = <<>>
            /\ Responded(r) => response[r].status = 400

\* The Q&A handler has read the response of the extraction endpoint.
ReadExtraction(r) ==
    /\ Responded(r)
    /\ extractPc = "done"
    /\ response[r].error # "fetch failed"

\* C23: the Q&A endpoint answers 502 when the download of the document
\* failed, 413 when the document is over the size limit, and with a 5xx
\* status for its other failures.
C23_StatusTellsTheCause ==
    \A r \in clients :
        ReadExtraction(r) /\ response[r].status # 200 =>
            /\ extractResponse.status = 502 => response[r].status = 502
            /\ extractResponse.status = 413 => response[r].status = 413
            /\ extractResponse.status \notin {502, 413} => response[r].status \in 500..599

\* The page ranges computed so far for the strategy of the call.
Planned == output.fn = "calculateSplittingStrategy"
AllPlanned == Planned /\ Len(output.ranges) = output.strategy.partsNeeded

\* C24: for P >= 1 pages and the pagesPerPart of calculateSplittingStrategy
\* (first pass or forced smaller), partsNeeded is ceil(P / pagesPerPart), and
\* the page ranges of the part indices 0..partsNeeded-1 are non-empty,
\* contiguous from page 0 on, pairwise disjoint, and together they are exactly
\* the pages 0..P-1.
C24_PartsCoverPages ==
    Planned =>
        LET P == input.pageCount
            ranges == output.ranges
            strategy == output.strategy
        IN /\ strategy.pagesPerPart >= 1
           /\ (strategy.partsNeeded - 1) * strategy.pagesPerPart < P
           /\ P <= strategy.partsNeeded * strategy.pagesPerPart
           /\ \A k \in DOMAIN ranges : ranges[k].startPage <= ranges[k].endPage
           /\ ranges # <<>> => ranges[1].startPage = 0
           /\ \A k \in DOMAIN ranges :
                  k > 1 => ranges[k].startPage = ranges[k - 1].endPage + 1
           /\ \A j, k \in DOMAIN ranges :
                  j # k => PageIndices(ranges[j]) \cap PageIndices(ranges[k]) = {}
           /\ AllPlanned =>
                  UNION {PageIndices(ranges[k]) : k \in DOMAIN ranges} = 0..(P - 1)

\* A forced-smaller plan of three or more parts whose last part is shorter
\* than the others, with every range computed.
C24_Witness ==
    /\ AllPlanned
    /\ input.forceSmaller
    /\ output.strategy.partsNeeded >= 3
    /\ input.pageCount % output.strategy.pagesPerPart # 0
    /\ input.pageCount > ADOBE_PAGE_LIMIT

\* The split extraction returned text: the pass that produced it is the last.
SplitReturnedText ==
    /\ Extracted
    /\ passes # <<>>
    /\ extractResponse.text.parts # <<>>
\* The parts the pass did not attempt.
NotAttempted(pass) == (1..pass.strategy.partsNeeded) \ {pass.called[k] : k \in DOMAIN pass.called}

\* C25: when the split extraction returns text and the pass that produced the
\* text had not attempted every part of its split, the text ends with the note
\* that it comes from the first parts only.
C25_NoteWhenPartsNotAttempted ==
    SplitReturnedText /\ NotAttempted(ThisPass) # {} =>
        extractResponse.text.note = "first parts only"

\* Text of the second pass, which attempted 5 of the 13 parts of its split.
C25_Witness ==
    /\ SplitReturnedText
    /\ Len(passes) = 2
    /\ NotAttempted(ThisPass) # {}
    /\ extractResponse.text.note = "first parts only"

\* The in-memory handler has responded; the cap had dropped chunks.
InMemoryResponded == output.fn = "POST" /\ output.at = "done"
TailDropped == output.chunked > Len(output.chunks)

\* C26: when the cap on the chunk count drops chunks, the chunks kept are the
\* first ones in extraction order, and the response to the caller says, next
\* to its answers, that the document was truncated.
C26_CapKeepsFirstAndTells ==
    output.fn = "POST" /\ TailDropped =>
        /\ \A i \in DOMAIN output.chunks :
               output.chunks[i] =
                   chunkText(input.extractedText,
                             inMemoryChunkSize(input.extractedText))[i]
        /\ (InMemoryResponded /\ output.response.status = 200) =>
               output.response.keys \ {"answers"} # {}

\* C27: for every question, the context passed to the answer synthesizer is
\* at most maxContextLength (2000) characters long and is a prefix of the
\* retrieved chunks joined in ranking order.
C27_ContextWithinBudget ==
    output.fn = "POST" =>
        \A i \in DOMAIN output.asked :
            output.asked[i] # <<>> =>
                /\ output.asked[i][1].length <= maxContextLength
                /\ output.asked[i][1].length <= JoinedLength(output.asked[i][1].parts)

\* The place of a tier in the order of the pipeline.
TierRank(tier) ==
    CASE tier = "extract" -> 1
      [] tier = "ocr" -> 2
      [] tier \in {"textBased", "parse"} -> 3
      [] tier = "raw" -> 4

\* C28: the tiers of the extraction pipeline are invoked in their fixed order;
\* a tier is invoked only when no tier before it gave text, so the first text
\* ends the pipeline and is the text of the response; and a tier that failed
\* (it raised, or ran into its deadline) never fails the request.
C28_FirstTextWins ==
    /\ \A j, k \in DOMAIN invoked :
           j < k => /\ TierRank(invoked[j].tier) < TierRank(invoked[k].tier)
                    /\ ~HasText(invoked[j].chars)
    /\ (extractPc = "done" /\ invoked # <<>>) =>
           /\ extractResponse.status = 200
           /\ HasText(invoked[Len(invoked)].chars) =>
                  extractResponse.text = StringOf(invoked[Len(invoked)].chars)

\* The first tier raised, the second gave a buffer, and a later tier gave the
\* text of the response.
C28_Witness ==
    /\ Extracted
    /\ Len(invoked) >= 3
    /\ invoked[1].how = "raised"
    /\ HasText(invoked[Len(invoked)].chars)
    /\ extractResponse.text = StringOf(invoked[Len(invoked)].chars)

\* The extraction endpoint is serving a request that it has not answered.
ExtractServing == extractPc \notin {"idle", "done"}

\* C29: every tier and the fetch have a deadline, so a remote conversion or
\* OCR call that never returns cannot keep the request from its response:
\* every extraction request is answered in the end.
C29_EveryRequestAnswered == ExtractServing ~> (extractPc = "done")

\* The parts of a pass that succeeded: their text is not blank.
Successes(pass) == {k \in DOMAIN pass.parts : pass.parts[k].value # NoPartText}
\* No part was called twice in the pass, and every call is for a part of it.
CalledOnce(pass) ==
    /\ \A j, k \in DOMAIN pass.called : j # k => pass.called[j] # pass.called[k]
    /\ \A k \in DOMAIN pass.called : pass.called[k] \in 1..pass.strategy.partsNeeded

\* C30: the split extraction runs at most two passes.  The first attempts at
\* most 3 parts.  A second pass runs exactly when the first pass ended without
\* a successful part; its pages per part are half the first pass's, rounded
\* down, and it attempts at most 5 parts.  No pass attempts a part twice.
C30_AtMostTwoPasses ==
    /\ Len(passes) <= 2
    /\ \A p \in DOMAIN passes : CalledOnce(passes[p])
    /\ passes # <<>> =>
           /\ Len(passes[1].called) <= 3
           /\ (Settled(passes[1].parts) /\ Successes(passes[1]) = {}) <=> Len(passes) = 2
    /\ Len(passes) = 2 =>
           /\ passes[2].strategy.pagesPerPart = passes[1].strategy.pagesPerPart \div 2
           /\ Len(passes[2].called) <= 5

\* Both passes ran with all the parts they may attempt, and the second gave
\* the text of the response.
C30_Witness ==
    /\ Extracted
    /\ Len(passes) = 2
    /\ Len(passes[1].called) = 3
    /\ Len(passes[2].called) = 5
    /\ Settled(passes[2].parts)
    /\ Successes(passes[2]) # {}

\* The texts of the parts in the text of the response.
PartsInResponse == {extractResponse.text.parts[j] : j \in DOMAIN extractResponse.text.parts}

\* C31: the parts of a pass are joined fail-independently.  A part that could
\* not be created, that got no text from any tier, that raised or ran into
\* its timer contributes no text, and the text of every part of the pass that
\* succeeded is in the combined result, which the request returns.
C31_FailIndependentJoin ==
    /\ (extractPc = "done" /\ passes # <<>> /\ Successes(ThisPass) # {}) => SplitReturnedText
    /\ SplitReturnedText =>
           \A k \in DOMAIN ThisPass.parts :
               IF k \in Successes(ThisPass)
               THEN ThisPass.parts[k].value \in PartsInResponse
               ELSE \A t \in PartsInResponse : t.part # k

\* Of three parts one ran into its timer, one ended without text and one
\* succeeded.
C31_Witness ==
    /\ SplitReturnedText
    /\ \E i, j, k \in DOMAIN ThisPass.parts :
           /\ ThisPass.parts[i].at = "timeout"
           /\ ThisPass.parts[j].at = "settled" /\ ThisPass.parts[j].value = NoPartText
           /\ k \in Successes(ThisPass)

\* Where in the log part k of the running pass settled (0: not yet).
SettledWhen(k) ==
    LET at == {i \in DOMAIN partLog.events :
                  /\ partLog.events[i].pass = Len(passes)
                  /\ partLog.events[i].part = k
                  /\ partLog.events[i].how # "late"}
    IN IF at = {} THEN 0 ELSE CHOOSE i \in at : TRUE

\* C32: the combined text of a split pass lists the parts that succeeded in
\* ascending part number, and each text stands under the delimiter that names
\* the number of the part it was extracted from, in whichever order the parts
\* of the pass settled.
C32_PartOrderForEveryCompletionOrder ==
    SplitReturnedText =>
        LET listed == extractResponse.text.parts
        IN /\ \A a, b \in DOMAIN listed : a < b => listed[a].part < listed[b].part
           /\ \A a \in DOMAIN listed :
                  /\ listed[a].part \in Successes(ThisPass)
                  /\ listed[a] = ThisPass.parts[listed[a].part].value
           /\ \A k \in Successes(ThisPass) : ThisPass.parts[k].value.part = k
\* A split returned the text of two parts of which the later one settled
\* first.
C32_Witness ==
    /\ SplitReturnedText
    /\ \E i, j \in Successes(ThisPass) :
           /\ i < j
           /\ SettledWhen(j) > 0
           /\ SettledWhen(j) < SettledWhen(i)

\* The deadline of part k of the pass passed: the minute of its creation or
\* the 2 minutes of its processing.
DeadlinePassed(pass, k) == HasEvent(pass, k, "timeout") \/ HasEvent(pass, k, "createTimeout")
\* How often part k of the pass settled.
Settlements(pass, k) ==
    {i \in DOMAIN partLog.events :
        /\ partLog.events[i].pass = pass
        /\ partLog.events[i].part = k
        /\ partLog.events[i].how # "late"}
\* The texts the parts of the running pass gave in time.
InTime ==
    {partLog.events[i].value : i \in {j \in DOMAIN partLog.events :
                                        /\ partLog.events[j].pass = Len(passes)
                                        /\ partLog.events[j].how = "settled"}}

\* C33: a part whose creation or processing exceeded its deadline is
\* abandoned.  It counts as failed (it has no text), it settles once in its
\* pass and is not started again in it, and the combined result has no text
\* under its number: every text of the result was given in time by a part of
\* the pass, also when the abandoned part gives its text later.
C33_DeadlineAbandonsPart ==
    /\ \A pass \in DOMAIN passes : \A k \in DOMAIN passes[pass].parts :
           DeadlinePassed(pass, k) =>
               /\ passes[pass].parts[k].at \in {"timeout", "createTimeout"}
               /\ passes[pass].parts[k].value = NoPartText
               /\ Cardinality(Settlements(pass, k)) = 1
    /\ SplitReturnedText =>
           \A t \in PartsInResponse :
               /\ ~DeadlinePassed(Len(passes), t.part)
               /\ t \in InTime
\* A split returned text although the creation of one part and the
\* processing of another ran into their timers, and the latter gave its text
\* before the pass was joined.
C33_Witness ==
    /\ SplitReturnedText
    /\ \E j, k \in DOMAIN ThisPass.parts :
           /\ HasEvent(Len(passes), j, "createTimeout")
           /\ \E a, b \in DOMAIN partLog.events :
                  /\ a < b
                  /\ partLog.events[a] = PartEvent(Len(passes), k, "late", LateText(k))
                  /\ partLog.events[b].pass = Len(passes)
                  /\ partLog.events[b].how = "settled"

\* The calls of the embedder, alone or of the in-memory handler, whose
\* embeddings.create is outstanding.
Outstanding ==
    IF output.fn \in {"getEmbeddings", "POST"}
    THEN {w \in DOMAIN output.runs : output.runs[w].at = "create"}
    ELSE {}

\* C34: embedding batches run one after the other.  In a request at most one
\* call of the embedding service is outstanding at a time, and a call
\* requests a batch only when all the batches before it have returned (its
\* vectors are those of the texts before the batch) and the pause is over.
C34_OneEmbeddingCallOutstanding ==
    /\ Cardinality(Outstanding) <= 1
    /\ \A run \in Runs :
           /\ run.at = "create" => Len(run.embeddings) = run.i
           /\ run.at = "delay" => run.i + run.batchSize \notin Range(run.requested)

\* For some n the index holds the records 0..n-1 of document u, each with
\* totalChunks n.
CompleteSetOf(u) ==
    \E n \in {store[id].metadata.totalChunks : id \in RecordsOf(u)} :
        \A k \in 0..(n - 1) :
            /\ RecordId(u, k) \in DOMAIN store
            /\ store[RecordId(u, k)].metadata.totalChunks = n

\* C35: whenever the existence check of a request reports its document as
\* present, the index holds the complete chunk set of one ingestion of the
\* document, also after requests whose upsert failed part-way.
C35_PresentMeansComplete ==
    [][\A r \in Requests :
          (pc[r] = "exists" /\ pdfExists'[r]) => CompleteSetOf(documents[r])]_vars

\* The attempts that wrote their file and have not removed it.
Using == IF output.fn = "adobe"
         THEN {a \in Attempts : output.attempts[a].at \in {"upload", "job"}}
         ELSE {}

\* C36: two attempts that run concurrently never use the same temporary
\* file.  The paths of two attempts that use their files differ, the bytes an
\* attempt uploaded are its own, and the file of an attempt that has yet to
\* read it is there: no other attempt's cleanup removed it.
C36_TempFilesNeverShared ==
    /\ \A a, b \in Using :
           a # b => output.attempts[a].tempPdfPath # output.attempts[b].tempPdfPath
    /\ \A a \in Using : output.attempts[a].uploaded \in {0, a}
    /\ \A a \in Using :
           output.attempts[a].at = "upload" =>
               output.attempts[a].tempPdfPath \in DOMAIN output.files

\* The awaits of the ingestion before storePDFChunks.
BeforeUpsert == {"extract", "embedChunks", "embedChunksDelay"}
\* Request r failed in its ingestion before the upsert.
FailedBeforeUpsert(r) ==
    /\ Responded(r)
    /\ response[r].status = 500
    /\ Called(r, "extract")
    /\ ~Called(r, "upsert")

\* C37: an ingestion that fails before the upsert (the extraction endpoint
\* answers with an error, the extracted text is empty, an embedding batch
\* fails) writes no record: the step of the failure leaves the index as it
\* is, the request never calls the upsert, and the index changes only in the
\* upsert of a request.  A request whose existence check then finds no record
\* of the document is told that it is absent and starts with the extraction.
C37_FailedIngestionWritesNothing ==
    [][/\ \A r \in Requests :
             /\ (pc[r] \in BeforeUpsert /\ pc'[r] = "done") =>
                    /\ store' = store
                    /\ FailedBeforeUpsert(r)'
             /\ FailedBeforeUpsert(r) =>
                    /\ FailedBeforeUpsert(r)'
                    /\ calls'[r] = calls[r]
             /\ (pc[r] = "exists" /\ pc'[r] # "exists" /\ RecordsOf(documents[r]) = {}) =>
                    /\ ~pdfExists'[r]
                    /\ pc'[r] = "extract"
       /\ store' # store => \E o \in Requests : pc[o] = "upsert" /\ ~FailedBeforeUpsert(o)
      ]_vars
\* One request failed before the upsert, here for the empty text; the index
\* has no record of the document, and the other request, for the same
\* document, was told so and is extracting.
C37_Witness ==
    \E r, o \in Requests :
        /\ r # o
        /\ FailedBeforeUpsert(r)
        /\ response[r].error = "Extracted PDF text is empty"
        /\ documents[o] = documents[r]
        /\ RecordsOf(documents[r]) = {}
        /\ ~pdfExists[o]
        /\ pc[o] = "extract"

\* The step changes the entry of u in the extraction cache.
EntryChanged(u) ==
    \/ (u \in DOMAIN extractCache) # (u \in DOMAIN extractCache')
    \/ /\ u \in DOMAIN extractCache
       /\ u \in DOMAIN extractCache'
       /\ extractCache'[u] # extractCache[u]
\* The step receives a request with a valid URL.
ValidArrives == extractions' = extractions + 1 /\ extractReq'.url = "valid"
\* The step receives a request that the cache answers.
HitArrives == ValidArrives /\ CacheHit(ExtractUrl)
\* The step answers with text that is not blank and stores it under u.
SetWithText(u) ==
    /\ ~HitArrives
    /\ extractPc' = "done"
    /\ extractResponse'.status = 200
    /\ Trimmed(extractResponse'.text)
    /\ u \in DOMAIN extractCache'
    /\ extractCache'[u].text = extractResponse'.text
\* A cache hit answers at once with the cached text: no download, no tier.
HitAnswersAtOnce ==
    HitArrives =>
        /\ extractPc' = "done"
        /\ extractResponse' = TextResponse(extractCache[ExtractUrl].text, "")
        /\ invoked' = <<>>
        /\ passes' = <<>>

\* C38 as stated: an entry of the extraction cache changes only in the step
\* of a request that answers with text that is not empty, and it is the entry
\* of the request's URL; every other step (the responses 400, 413, 502, 500,
\* the warnings of the empty text, the cache hits) leaves every entry as it
\* is, and a cache hit downloads and extracts nothing.
C38_CacheWrittenOnlyWithOwnText ==
    [][/\ \A u \in DOMAIN extractCache \cup DOMAIN extractCache' :
             EntryChanged(u) => u = ExtractUrl /\ SetWithText(u)
       /\ HitAnswersAtOnce]_vars

\* C38, amended: an entry is written only in the step of a request that
\* answers with text that is not empty, under the request's URL; an entry is
\* removed only when a request with a valid URL arrives and finds the entry
\* of its URL expired; every other step leaves every entry as it is, and a
\* cache hit downloads and extracts nothing.
C38_CacheWrittenOrEvictedForOwnUrl ==
    [][/\ \A u \in DOMAIN extractCache \cup DOMAIN extractCache' :
             EntryChanged(u) =>
                 /\ u = ExtractUrl
                 /\ \/ SetWithText(u)
                    \/ /\ ValidArrives
                       /\ u \in DOMAIN extractCache
                       /\ Expired(extractCache[u], clock)
                       /\ u \notin DOMAIN extractCache'
                       /\ extractPc' = "fetch"
       /\ HitAnswersAtOnce]_vars
\* The second request was answered from the cache, with the text the first
\* request had stored, without any tier or pass; the entry of the other
\* document is as it was.
C38_Witness ==
    /\ extractions = 2
    /\ Extracted
    /\ invoked = <<>>
    /\ passes = <<>>
    /\ ExtractUrl \in DOMAIN extractCache
    /\ extractResponse.text = extractCache[ExtractUrl].text
    /\ Trimmed(extractResponse.text)
    /\ extractCache[OtherUrl] = CachedBefore[OtherUrl]

\* The step in which the index query of question i of request r raises.
QueryRaises(r, i) ==
    /\ i \in DOMAIN task[r]
    /\ task[r][i] = "query"
    /\ i \notin hist[r].queryRaised
    /\ i \in hist'[r].queryRaised

\* C39: when the index query of one question fails, getTopKChunks gives an
\* empty list and does not raise: the request goes on, the synthesizer is
\* called for that question with no chunks, and when it returns the slot of
\* the question holds its answer on the empty context, not the error string
\* of the task's catch, also in the response.
C39_QueryFailureGivesEmptyContext ==
    [][\A r \in Requests :
          /\ \A i \in DOMAIN task[r] :
                 QueryRaises(r, i) =>
                     /\ relevantChunks'[r][i] = <<>>
                     /\ task'[r][i] = "synth"
                     /\ calls'[r] = Append(calls[r], "synth")
                     /\ pc'[r] = "questions"
                     /\ response'[r] = NoResponse
          /\ \A i \in hist'[r].queryRaised \ hist'[r].synthRaised :
                 /\ task'[r][i] = "done" =>
                        questionResults'[r][i].answer = SynthAnswer(questions'[r][i], <<>>)
                 /\ Responded(r)' =>
                        /\ response'[r].status = 200
                        /\ response'[r].answers[i] = SynthAnswer(questions'[r][i], <<>>)]_vars
\* C39's case: the index holds chunks of the document, the query of the
\* first of two questions raised, and the response has the synthesizer's
\* answer on no context for it and an answer from chunks for the second.
C39_Witness ==
    \E r \in Requests :
        /\ Succeeded(r)
        /\ Len(questions[r]) = 2
        /\ hist[r].queryRaised = {1}
        /\ hist[r].synthRaised = {}
        /\ IndexQuery(store, questionEmbeddings[r][1], documents[r], topK) # <<>>
        /\ response[r].answers[1] = SynthAnswer(questions[r][1], <<>>)
        /\ response[r].answers[2].context.parts # <<>>

\* The parts the pass processed.
Processed(pass) == Cardinality(DOMAIN pass.parts)

\* C40: the note of a split's text names the counts of the pass that gave the
\* text: the total is the number of parts of that pass's strategy, and the
\* number of parts processed, when the note names one, is that of the pass;
\* the note names one exactly when the pass left parts out.
C40_NoteCountsOfProducingPass ==
    SplitReturnedText =>
        /\ extractResponse.text.numbers.total = ThisPass.strategy.partsNeeded
        /\ extractResponse.text.numbers.processed =
               IF NotAttempted(ThisPass) # {} THEN Processed(ThisPass) ELSE 0
====
